---- MODULE Spec2Model ----
(***************************************************************************)
(* Batch execution engine of explainable-nl-query-db-agents.               *)
(*                                                                         *)
(*   - the chunk writer, evaluation/generate_spider_predictions.py: main   *)
(*     partitions [start_index, end_index) into chunks, retries each       *)
(*     question, writes predictions.txt / predictions_debug.jsonl /        *)
(*     summary.json per chunk and stops the run on the first hard failure; *)
(*   - the checkpointed runner, evaluation/Predicting.py: main walks the   *)
(*     questions from tracking["last_index"] + 1, retries each one and     *)
(*     saves progress.json after every terminal outcome;                   *)
(*   - the combiner, evaluation/combine_spider_chunks.py: main finds the   *)
(*     test_chuck_<n> folders, validates each one and merges their         *)
(*     predictions and debug lines in the order of <n>.                    *)
(*                                                                         *)
(* One behaviour runs one of the programs: its Init leaves the other ones  *)
(* switched off (their pc is "off").                                       *)
(***************************************************************************)
EXTENDS Integers, Sequences, FiniteSets, TLC

(* ----------------------------- bounds --------------------------------- *)
\* largest number of rows of the chunk writer's input file
MaxExamples == 3
\* largest chunk_size parameter explored
MaxChunkSize == 2
\* largest max_retries parameter explored
MaxRetries == 1
\* largest number of questions of the checkpointed runner's question file
MaxQuestions == 2
\* largest retry_count of the checkpointed runner's config explored
MaxRetryCount == 2
\* largest number of times the checkpointed runner's process is started
MaxRuns == 2
\* largest number of lines of a chunk's predictions.txt
MaxLines == 2
\* number of lines of every predictions_debug.jsonl explored
DebugLines == 1

VARIABLES
    \* ---- chunk writer (generate_spider_predictions.main) ----
    w_pc,            \* position in main
    total_examples,  \* len(examples)
    from_case,       \* "From case" prompt
    to_case,         \* "To case" prompt
    chunk_size,      \* params["chunk_size"]
    max_retries,     \* params["max_retries"]
    use_gold_db,     \* params["use_gold_db"]
    start_index,
    end_index,
    chunk_no,
    current,
    chunk_start,
    chunk_end,
    chunk_ok,
    stop_all,
    w_idx,           \* idx of the for loop
    w_row,           \* examples[idx]
    w_attempt,       \* attempt
    success,
    w_chunks,        \* chunk number -> the files of test_chuck_<n>
    w_log,           \* run.log: idx -> number of "attempt" and "FAILED" lines
    w_rc,            \* main's return value (-1: main has not returned)
    w_last,          \* what the _run_one_question call of the attempt just made did
    w_left,          \* the chunk numbers of the test_chuck_<n> folders that
                     \* earlier runs of main left in output_root
    w_run,           \* which run of main into output_root this is
    \* ---- checkpointed runner (Predicting.main) ----
    p_pc,            \* position in main
    num_questions,   \* len(questions)
    questions,       \* _load_questions(question_file): index -> row
    p_read,          \* the indices whose row main has read so far
    retry_count,     \* config["retry_count"]
    agents_fail,     \* index -> attempts of _run_agents that fail before one succeeds
                     \* (-1: the question has not been tried yet)
    question_file,   \* the question file the user named for this run
    tracking,        \* the tracking dict in memory
    tracking_file,   \* progress.json on disk
    results,         \* predictions_model_<tag>.tsv: the index of each line
    complete_result, \* complete_result_model_<tag>.json: the index of each record
    p_idx,           \* idx of the for loop
    p_attempt,       \* attempt
    p_start_index,   \* start_index of this run
    p_loaded,        \* what _load_tracking read and returned in this run
    p_log,           \* log lines and sleeps of this run, per index
    p_runs,          \* number of process starts so far
    p_saved,         \* every last_index a _save_tracking has written
    p_just_saved,    \* the _save_tracking that has just returned: after which
                     \* outcome (ok, skip, fail) of which index k
    p_kill,          \* where the previous process was killed
    p_last,          \* what the _run_agents call of the attempt just made
                     \* returned (kept until the question's save is done)
    p_clean          \* every stop so far came right after a question's save,
                     \* and every restart was a 'continue'

w_vars == << w_pc, total_examples, from_case, to_case, chunk_size, max_retries,
             use_gold_db, start_index, end_index, chunk_no, current,
             chunk_start, chunk_end, chunk_ok, stop_all, w_idx, w_row,
             w_attempt, success, w_chunks, w_log, w_rc, w_last, w_left,
             w_run >>

p_vars == << p_pc, question_file, num_questions, questions, p_read, retry_count, agents_fail,
             tracking, tracking_file, results, complete_result, p_idx,
             p_attempt, p_start_index, p_loaded, p_log, p_runs, p_saved,
             p_just_saved, p_kill, p_last, p_clean >>

VARIABLES
    \* ---- combiner (combine_spider_chunks.main) ----
    c_pc,            \* position in main
    c_children,      \* the names of the folders chunks_root holds
    c_files,         \* folder name -> what main has found in that folder
    strict,          \* args.strict
    chunk_dirs,      \* _find_chunk_dirs' result: the folder names, sorted
    c_i,             \* position of the for loop in chunk_dirs
    merged_prediction_lines,
    merged_debug_lines,
    report,          \* report["chunks"] and report["warnings"] (each entry
                     \* with the folder it is about)
    c_out,           \* the three output files
    c_rc             \* main's return value (-1: main has not returned)

c_vars == << c_pc, c_children, c_files, strict, chunk_dirs, c_i,
             merged_prediction_lines, merged_debug_lines, report, c_out,
             c_rc >>

VARIABLES
    \* ---- the query text of one successful attempt (_run_one_question, main) ----
    n_pc,            \* position: "input", "raised", "normalized", "written"
    c_result,        \* the string agent C returned, as a sequence of characters
    prediction_sql,  \* sql = _normalize_sql(c_result), result["prediction_sql"]
    pred_f           \* the text written to predictions.txt

n_vars == << n_pc, c_result, prediction_sql, pred_f >>

vars == << w_vars, p_vars, c_vars, n_vars >>

Min(a, b) == IF a <= b THEN a ELSE b
Max(a, b) == IF a >= b THEN a ELSE b

NoValue == "none"
NoSummary == [written |-> FALSE]
NoRow == [question |-> FALSE, db_id |-> FALSE]
\* no attempt has just been made
NoAttempt == [made |-> FALSE]
\* the rows an input file can hold: a row has a question text or not, a db_id or not
Rows == [question : BOOLEAN, db_id : BOOLEAN]
Indices == 0 .. (MaxExamples - 1)
QIndices == 0 .. (MaxQuestions - 1)

(* ------------------------- pure functions ------------------------------ *)

\* _compute_range: the half-open index range of the run
ComputeRange(start_case, end_case, total) ==
    LET s == Max(0, start_case)
        e == IF end_case < 0 THEN total ELSE Min(end_case + 1, total)
    IN  << s, e >>

\* chunk_end = min(current + chunk_size, end_index)
ChunkEndBad(cur, size, endx) == cur + size
ChunkEnd(cur, size, endx) == Min(cur + size, endx)

\* the outcomes of the three external stage calls of one attempt
AOutcomes == {"db", "empty", "raise"}
BOutcomes == {"tables", "raise"}
COutcomes == {"sql", "blank", "errdict", "nonstr", "raise"}

\* lines 506-514 with the gold branch lost: the db is always agent A's
PredictedDbBad(gold) == "agent_a"
\* predicted_db of lines 509 / 514: the row's gold db id ("gold_db") when
\* use_gold_db, else the name _notebook_db_select returned ("agent_a"); the
\* selection gets the question, the pipeline and top_k, never the row
PredictedDb(gold) == IF gold THEN "gold_db" ELSE "agent_a"
\* step_times["agent_a_ms"] of lines 510 / 515: the literal 0, or a measured
\* duration
AgentAMs(gold) == IF gold THEN "0" ELSE "measured"

\* _run_one_question: "ok" or the exception it raises, as
\* [ok, error, called (the stages invoked, in order), predicted_db (the db
\* handed to agents B and C), agent_a_ms]
RunOneQuestion(row, gold, a, b, c) ==
    IF ~row.question
    THEN [ok |-> FALSE, error |-> "Missing question field", called |-> << >>,
          predicted_db |-> NoValue, agent_a_ms |-> NoValue]
    ELSE IF gold /\ ~row.db_id
    THEN [ok |-> FALSE, error |-> "use_gold_db=true but current row has no db_id",
          called |-> << >>, predicted_db |-> NoValue, agent_a_ms |-> NoValue]
    ELSE LET pre == IF gold THEN << >> ELSE << "A" >>
             ran(ok, error, called) ==
                 [ok |-> ok, error |-> error, called |-> called,
                  predicted_db |-> PredictedDb(gold),
                  agent_a_ms |-> AgentAMs(gold)]
         IN  IF ~gold /\ a = "raise"
             THEN [ok |-> FALSE, error |-> "Agent A raised", called |-> pre,
                   predicted_db |-> NoValue, agent_a_ms |-> NoValue]
             ELSE IF ~gold /\ a = "empty"
             THEN [ok |-> FALSE, error |-> "Agent A returned empty db_name",
                   called |-> pre, predicted_db |-> NoValue,
                   agent_a_ms |-> AgentAMs(gold)]
             ELSE IF b = "raise"
             THEN ran(FALSE, "Agent B raised", pre \o << "B" >>)
             ELSE IF c = "raise"
             THEN ran(FALSE, "Agent C raised", pre \o << "B", "C" >>)
             ELSE IF c = "errdict"
             THEN ran(FALSE, "Agent C error", pre \o << "B", "C" >>)
             ELSE IF c \in {"nonstr", "blank"}
             THEN ran(FALSE, "Agent C returned empty SQL",
                      pre \o << "B", "C" >>)
             ELSE ran(TRUE, NoValue, pre \o << "B", "C" >>)

\* while attempt <= max_retries and not success
RetryGuardBad(att, maxr, succ) == att <= maxr
RetryGuard(att, maxr, succ) == att <= maxr /\ ~succ

\* integrity_ok = predicted_count == expected_count
IntegrityOkBad(predicted, expected) == predicted <= expected
IntegrityOk(predicted, expected) == predicted = expected

(* ------------------------- query text ---------------------------------- *)

\* the longest string agent C returns in the model
MaxChars == 4
\* the characters of a string: two letters, space, tab, newline
Chars == {"a", "b", " ", "\t", "\n"}
\* the characters str.split() and str.strip() take for whitespace
IsSpace(ch) == ch \in {" ", "\t", "\n"}
\* the strings of at most n characters
RECURSIVE Strings(_)
Strings(n) ==
    IF n = 0 THEN {<< >>}
    ELSE LET shorter == Strings(n - 1)
         IN  shorter \cup {Append(t, ch) : t \in shorter, ch \in Chars}

\* sql.replace("\n", " ")
ReplaceNewlines(s) == [j \in 1 .. Len(s) |-> IF s[j] = "\n" THEN " " ELSE s[j]]
\* s.split(): the maximal runs of characters that are not whitespace, in order
RECURSIVE Split(_)
Split(s) ==
    IF s = << >> THEN << >>
    ELSE IF IsSpace(Head(s)) THEN Split(Tail(s))
    ELSE LET ends == {k \in 1 .. Len(s) :
                        /\ \A j \in 1 .. k : ~IsSpace(s[j])
                        /\ (k = Len(s) \/ IsSpace(s[k + 1]))}
             k == CHOOSE e \in ends : TRUE
         IN  << SubSeq(s, 1, k) >> \o Split(SubSeq(s, k + 1, Len(s)))
\* " ".join(words)
RECURSIVE Join(_)
Join(words) ==
    IF words = << >> THEN << >>
    ELSE IF Len(words) = 1 THEN words[1]
    ELSE words[1] \o << " " >> \o Join(Tail(words))

\* _normalize_sql without the split: only the newlines are replaced
NormalizeSqlBad(s) == ReplaceNewlines(s)
\* _normalize_sql
NormalizeSql(s) == Join(Split(ReplaceNewlines(s)))

\* c_result.strip()
Strip(s) ==
    LET keep == {j \in 1 .. Len(s) : ~IsSpace(s[j])}
    IN  IF keep = {} THEN << >>
        ELSE SubSeq(s, CHOOSE j \in keep : \A k \in keep : j <= k,
                       CHOOSE j \in keep : \A k \in keep : j >= k)

\* _run_one_question, lines 539-541: an empty c_result raises, any other one
\* is normalized
N_Normalize ==
    /\ n_pc = "input"
    /\ IF Strip(c_result) = << >>
       THEN /\ n_pc' = "raised"
            /\ UNCHANGED prediction_sql
       ELSE /\ prediction_sql' = NormalizeSql(c_result)
            /\ n_pc' = "normalized"
    /\ UNCHANGED << c_result, pred_f >>
    /\ UNCHANGED w_vars
    /\ UNCHANGED p_vars
    /\ UNCHANGED << c_pc, c_children, c_files, strict, chunk_dirs, c_i,
                    merged_prediction_lines, merged_debug_lines, report, c_out,
                    c_rc >>

\* main, line 727: pred_f.write(result["prediction_sql"] + "\n")
N_Write ==
    /\ n_pc = "normalized"
    /\ pred_f' = pred_f \o prediction_sql \o << "\n" >>
    /\ n_pc' = "written"
    /\ UNCHANGED << c_result, prediction_sql >>
    /\ UNCHANGED w_vars
    /\ UNCHANGED p_vars
    /\ UNCHANGED << c_pc, c_children, c_files, strict, chunk_dirs, c_i,
                    merged_prediction_lines, merged_debug_lines, report, c_out,
                    c_rc >>

(* ------------------------- chunk writer -------------------------------- *)

\* line 798 lost: the next chunk takes the same number, and the same folder
NextChunkNoBad(n) == n
\* chunk_no += 1 (line 798)
NextChunkNo(n) == n + 1

EmptyChunk == [predictions |-> << >>, debug |-> << >>, summary |-> NoSummary]

\* main, lines 666-678: compute the range; nothing to run returns 0
W_Main ==
    /\ w_pc = "main"
    /\ LET r == ComputeRange(from_case, to_case, total_examples)
       IN  /\ start_index' = r[1]
           /\ end_index' = r[2]
           /\ IF r[1] >= r[2]
              THEN /\ w_rc' = 0
                   /\ w_pc' = "done"
                   /\ UNCHANGED << chunk_no, current >>
              ELSE /\ chunk_no' = 1
                   /\ current' = r[1]
                   /\ w_pc' = "chunk"
                   /\ UNCHANGED w_rc
    /\ UNCHANGED << total_examples, from_case, to_case, chunk_size, max_retries,
                    use_gold_db, chunk_start, chunk_end, chunk_ok, stop_all,
                    w_idx, w_row, w_attempt, success, w_chunks, w_log >>
    /\ w_last' = NoAttempt
    /\ UNCHANGED << w_left, w_run >>
    /\ UNCHANGED p_vars
    /\ UNCHANGED c_vars
    /\ UNCHANGED n_vars

\* main, lines 680-706: open the next chunk's folder and files
W_ChunkBegin ==
    /\ w_pc = "chunk"
    /\ current < end_index
    /\ chunk_start' = current
    /\ chunk_end' = ChunkEnd(current, chunk_size, end_index)
    /\ w_chunks' = [n \in (DOMAIN w_chunks) \cup {chunk_no} |->
                      IF n = chunk_no THEN EmptyChunk ELSE w_chunks[n]]
    /\ chunk_ok' = 0
    /\ stop_all' = FALSE
    /\ w_idx' = current
    /\ w_pc' = "for"
    /\ UNCHANGED << total_examples, from_case, to_case, chunk_size, max_retries,
                    use_gold_db, start_index, end_index, chunk_no, current,
                    w_row, w_attempt, success, w_log, w_rc >>
    /\ w_last' = NoAttempt
    /\ UNCHANGED << w_left, w_run >>
    /\ UNCHANGED p_vars
    /\ UNCHANGED c_vars
    /\ UNCHANGED n_vars

\* main, lines 800-803: the while loop over chunks is exhausted
W_RunComplete ==
    /\ w_pc = "chunk"
    /\ ~(current < end_index)
    /\ w_rc' = 0
    /\ w_pc' = "done"
    /\ UNCHANGED << total_examples, from_case, to_case, chunk_size, max_retries,
                    use_gold_db, start_index, end_index, chunk_no, current,
                    chunk_start, chunk_end, chunk_ok, stop_all, w_idx, w_row,
                    w_attempt, success, w_chunks, w_log >>
    /\ w_last' = NoAttempt
    /\ UNCHANGED << w_left, w_run >>
    /\ UNCHANGED p_vars
    /\ UNCHANGED c_vars
    /\ UNCHANGED n_vars

\* main, lines 708-712: the next idx of range(chunk_start, chunk_end)
W_ForNext ==
    /\ w_pc = "for"
    /\ w_idx < chunk_end
    /\ w_row' \in Rows
    /\ w_attempt' = 0
    /\ success' = FALSE
    /\ w_pc' = "while"
    /\ UNCHANGED << total_examples, from_case, to_case, chunk_size, max_retries,
                    use_gold_db, start_index, end_index, chunk_no, current,
                    chunk_start, chunk_end, chunk_ok, stop_all, w_idx,
                    w_chunks, w_log, w_rc >>
    /\ w_last' = NoAttempt
    /\ UNCHANGED << w_left, w_run >>
    /\ UNCHANGED p_vars
    /\ UNCHANGED c_vars
    /\ UNCHANGED n_vars

\* the for loop is exhausted: on to the summary (line 761)
W_ForEnd ==
    /\ w_pc = "for"
    /\ ~(w_idx < chunk_end)
    /\ w_pc' = "summary"
    /\ UNCHANGED << total_examples, from_case, to_case, chunk_size, max_retries,
                    use_gold_db, start_index, end_index, chunk_no, current,
                    chunk_start, chunk_end, chunk_ok, stop_all, w_idx, w_row,
                    w_attempt, success, w_chunks, w_log, w_rc >>
    /\ w_last' = NoAttempt
    /\ UNCHANGED << w_left, w_run >>
    /\ UNCHANGED p_vars
    /\ UNCHANGED c_vars
    /\ UNCHANGED n_vars

\* main, lines 714-746: one pass of the retry loop
W_Attempt ==
    /\ w_pc = "while"
    /\ RetryGuard(w_attempt, max_retries, success)
    /\ w_attempt' = w_attempt + 1
    /\ \E a \in AOutcomes, b \in BOutcomes, c \in COutcomes :
         LET result == RunOneQuestion(w_row, use_gold_db, a, b, c)
             ch == w_chunks[chunk_no]
         IN  /\ w_last' = [made |-> TRUE, idx |-> w_idx, result |-> result]
             /\ IF result.ok
                THEN /\ w_chunks' = [w_chunks EXCEPT ![chunk_no] =
                           [ch EXCEPT
                              !.predictions = Append(ch.predictions, w_idx),
                              !.debug = Append(ch.debug,
                                               [index |-> w_idx, error |-> FALSE])]]
                     /\ chunk_ok' = chunk_ok + 1
                     /\ success' = TRUE
                     /\ w_log' = [w_log EXCEPT ![w_idx].attempts = @ + 1]
                ELSE /\ w_log' = [w_log EXCEPT ![w_idx].attempts = @ + 1,
                                               ![w_idx].failed = @ + 1]
                     /\ UNCHANGED << w_chunks, chunk_ok, success >>
    /\ UNCHANGED << w_pc, total_examples, from_case, to_case, chunk_size,
                    max_retries, use_gold_db, start_index, end_index, chunk_no,
                    current, chunk_start, chunk_end, stop_all, w_idx, w_row,
                    w_rc >>
    /\ UNCHANGED << w_left, w_run >>
    /\ UNCHANGED p_vars
    /\ UNCHANGED c_vars
    /\ UNCHANGED n_vars

\* main, lines 715-746, when the agents succeed and a statement between the
\* write of the prediction line and the count raises (json.dumps rejects a
\* value of the result, or a write or flush fails with OSError, lines
\* 728-731): the prediction line is already written (727), chunk_ok and
\* success are not reached (733-734), and the except clause logs a failed
\* attempt
W_AttemptDebugFails ==
    /\ w_pc = "while"
    /\ RetryGuard(w_attempt, max_retries, success)
    /\ w_attempt' = w_attempt + 1
    /\ \E a \in AOutcomes, b \in BOutcomes, c \in COutcomes :
         LET result == RunOneQuestion(w_row, use_gold_db, a, b, c)
         IN  /\ result.ok
             /\ w_last' = [made |-> TRUE, idx |-> w_idx,
                           result |-> [result EXCEPT
                                         !.ok = FALSE,
                                         !.error = "debug record not written"]]
    /\ w_chunks' = [w_chunks EXCEPT ![chunk_no].predictions = Append(@, w_idx)]
    /\ w_log' = [w_log EXCEPT ![w_idx].attempts = @ + 1,
                              ![w_idx].failed = @ + 1]
    /\ UNCHANGED << w_pc, total_examples, from_case, to_case, chunk_size,
                    max_retries, use_gold_db, start_index, end_index, chunk_no,
                    current, chunk_start, chunk_end, chunk_ok, stop_all, w_idx,
                    w_row, success, w_rc >>
    /\ UNCHANGED << w_left, w_run >>
    /\ UNCHANGED p_vars
    /\ UNCHANGED c_vars
    /\ UNCHANGED n_vars

\* main, lines 748-759 with the break dropped: the next idx is processed
W_AfterWhileNoBreak ==
    /\ w_pc = "while"
    /\ ~RetryGuard(w_attempt, max_retries, success)
    /\ IF ~success
       THEN /\ w_chunks' = [w_chunks EXCEPT ![chunk_no].debug =
                              Append(@, [index |-> w_idx, error |-> TRUE])]
            /\ stop_all' = TRUE
       ELSE UNCHANGED << w_chunks, stop_all >>
    /\ w_idx' = w_idx + 1
    /\ w_pc' = "for"
    /\ UNCHANGED << total_examples, from_case, to_case, chunk_size, max_retries,
                    use_gold_db, start_index, end_index, chunk_no, current,
                    chunk_start, chunk_end, chunk_ok, w_row, w_attempt, success,
                    w_log, w_rc >>
    /\ w_last' = NoAttempt
    /\ UNCHANGED << w_left, w_run >>
    /\ UNCHANGED p_vars
    /\ UNCHANGED c_vars
    /\ UNCHANGED n_vars

\* main, lines 748-759: the retry loop is over; a question without success
\* gets its failure record and breaks out of the chunk
W_AfterWhile ==
    /\ w_pc = "while"
    /\ ~RetryGuard(w_attempt, max_retries, success)
    /\ IF ~success
       THEN /\ w_chunks' = [w_chunks EXCEPT ![chunk_no].debug =
                              Append(@, [index |-> w_idx, error |-> TRUE])]
            /\ stop_all' = TRUE
            /\ w_pc' = "summary"
            /\ UNCHANGED w_idx
       ELSE /\ w_idx' = w_idx + 1
            /\ w_pc' = "for"
            /\ UNCHANGED << w_chunks, stop_all >>
    /\ UNCHANGED << total_examples, from_case, to_case, chunk_size, max_retries,
                    use_gold_db, start_index, end_index, chunk_no, current,
                    chunk_start, chunk_end, chunk_ok, w_row, w_attempt, success,
                    w_log, w_rc >>
    /\ w_last' = NoAttempt
    /\ UNCHANGED << w_left, w_run >>
    /\ UNCHANGED p_vars
    /\ UNCHANGED c_vars
    /\ UNCHANGED n_vars

\* line 783 with range_start alone
NextStartSuggestionBad(range_start, predicted_count) == range_start
\* "next_start_suggestion": chunk_start + predicted_count (line 783)
NextStartSuggestion(range_start, predicted_count) == range_start + predicted_count

\* the summary dict of lines 761-784
Summary(stop) ==
    LET expected_count == chunk_end - chunk_start
        predicted_count == chunk_ok
        integrity_ok == IntegrityOk(predicted_count, expected_count)
    IN  [written |-> TRUE,
         chunk_no |-> chunk_no,
         range_start |-> chunk_start,
         range_end_exclusive |-> chunk_end,
         expected_questions |-> expected_count,
         successful_predictions |-> predicted_count,
         integrity_ok |-> integrity_ok,
         stopped_due_to_error |-> (stop \/ ~integrity_ok),
         max_retries |-> max_retries,
         next_start_suggestion |->
             NextStartSuggestion(chunk_start, predicted_count)]

\* main, lines 761-798 without the return of line 795
W_SummaryNoReturn ==
    /\ w_pc = "summary"
    /\ LET s == Summary(stop_all)
       IN  /\ w_chunks' = [w_chunks EXCEPT ![chunk_no].summary = s]
           /\ stop_all' = s.stopped_due_to_error
    /\ current' = chunk_end
    /\ chunk_no' = NextChunkNo(chunk_no)
    /\ w_pc' = "chunk"
    /\ UNCHANGED << total_examples, from_case, to_case, chunk_size, max_retries,
                    use_gold_db, start_index, end_index, chunk_start, chunk_end,
                    chunk_ok, w_idx, w_row, w_attempt, success, w_log, w_rc >>
    /\ w_last' = NoAttempt
    /\ UNCHANGED << w_left, w_run >>
    /\ UNCHANGED p_vars
    /\ UNCHANGED c_vars
    /\ UNCHANGED n_vars

\* main, lines 761-798: write summary.json, then stop the run or move on
W_Summary ==
    /\ w_pc = "summary"
    /\ LET s == Summary(stop_all)
       IN  /\ w_chunks' = [w_chunks EXCEPT ![chunk_no].summary = s]
           /\ stop_all' = s.stopped_due_to_error
           /\ IF s.stopped_due_to_error
              THEN /\ w_rc' = 2
                   /\ w_pc' = "done"
                   /\ UNCHANGED << current, chunk_no >>
              ELSE /\ current' = chunk_end
                   /\ chunk_no' = NextChunkNo(chunk_no)
                   /\ w_pc' = "chunk"
                   /\ UNCHANGED w_rc
    /\ UNCHANGED << total_examples, from_case, to_case, chunk_size, max_retries,
                    use_gold_db, start_index, end_index, chunk_start, chunk_end,
                    chunk_ok, w_idx, w_row, w_attempt, success, w_log >>
    /\ w_last' = NoAttempt
    /\ UNCHANGED << w_left, w_run >>
    /\ UNCHANGED p_vars
    /\ UNCHANGED c_vars
    /\ UNCHANGED n_vars

(* ---------------------- checkpointed runner ---------------------------- *)

\* what progress.json can hold: no file, a file of size 0 (opened for writing
\* and not written yet), a file cut in the middle of json.dump, or a saved dict
NoFile == [kind |-> "absent"]
EmptyFile == [kind |-> "empty"]
CorruptFile == [kind |-> "corrupt"]
SavedFile(payload) == [kind |-> "json", payload |-> payload]

\* the question files a run can be given
QuestionFiles == {"q1", "q2"}

\* the dict _load_tracking(tracking_file, question_file) makes up when it
\* reads nothing
FreshTracking == [question_file |-> question_file, last_index |-> -1,
                  last_attempted |-> -1, status |-> "new", failures |-> << >>]

\* _load_tracking
LoadTrackingBad(file) ==
    IF file.kind = "json" THEN file.payload
    ELSE [FreshTracking EXCEPT !.last_index = 0]
LoadTracking(file) ==
    IF file.kind = "json" THEN file.payload ELSE FreshTracking

\* lines 470-473 without line 470: last_index keeps what was loaded
ResetTrackingBad(tr) ==
    [tr EXCEPT !.last_attempted = -1, !.status = "new", !.failures = << >>]
\* main, lines 470-473: the reset of a new test
ResetTracking(tr) ==
    [tr EXCEPT !.last_index = -1, !.last_attempted = -1, !.status = "new",
               !.failures = << >>]

\* start_index = int(tracking.get("last_index", -1)) + 1
StartIndexBad(tr) == Max(0, tr.last_index)
StartIndex(tr) == tr.last_index + 1

\* main, lines 553-555: the tracking dict after question idx succeeded
AdvanceBad(tr, idx) == [tr EXCEPT !.last_attempted = idx, !.status = "running"]
Advance(tr, idx) ==
    [tr EXCEPT !.last_index = idx, !.last_attempted = idx, !.status = "running"]

\* what the three agents' run() can return ("blankSQL": a dict whose "SQL" is a
\* string of whitespace only; "noSQL": a dict whose "SQL" is None or "")
PA == {"database", "error", "nothing"}
PB == {"tables", "error"}
PC == {"SQL", "blankSQL", "noSQL", "error"}

\* ' '.join(sql.split()) of line 535 is non-empty
NormalizedNonEmpty(sql) == sql = "text"

\* _run_agents: [stage, sql (result["sql"]: "text", "blank" for whitespace only,
\* "none" for None, "" or no such key), called, agent_a (what agent A returned)]
RunAgents(a, b, c) ==
    IF b = "error"
    THEN [stage |-> "b", sql |-> "none", called |-> << "a", "b" >>, agent_a |-> a]
    ELSE IF c = "error"
    THEN [stage |-> "c", sql |-> "none", called |-> << "a", "b", "c" >>,
          agent_a |-> a]
    ELSE [stage |-> "ok",
          sql |-> IF c = "SQL" THEN "text" ELSE IF c = "blankSQL" THEN "blank"
                  ELSE "none",
          called |-> << "a", "b", "c" >>, agent_a |-> a]

\* if stage == "ok" and result.get("sql")
AttemptOk(r) == r.stage = "ok" /\ r.sql # "none"

\* what is kept of the _run_agents call of question idx that returned r
LastRun(idx, r) ==
    [made |-> TRUE, idx |-> idx,
     result |-> [stage |-> r.stage, sql |-> r.sql, called |-> r.called,
                 a_error |-> (r.agent_a = "error")]]

\* while attempt < retry_count
PRetryGuard(att, rc) == att < rc

\* line 561 with <= for <: the sleep also follows the last attempt
WaitGuardBad(att, rc) == att <= rc
\* if attempt < retry_count (line 561): log "Retry ... Waiting" and sleep
WaitGuard(att, rc) == att < rc

NoLog == [starts |-> 0, retries |-> 0, waits |-> 0, failed |-> 0, done |-> 0]
\* no _save_tracking has just returned
NoSave == [after |-> "none", k |-> -1]
NotLoaded == [from |-> "none", got |-> FreshTracking]
\* questions[idx]
Question(i) == questions[i]
\* a row main skips: no question text, or no db_id
Skipped(row) == ~row.question \/ ~row.db_id

\* main, lines 489-500: load the questions and enter the for loop
\* (tr is the tracking dict the run goes on with)
EnterLoop(tr) ==
    IF num_questions = 0
    THEN /\ p_pc' = "done"
         /\ UNCHANGED << p_idx, p_start_index >>
    ELSE /\ p_start_index' = StartIndex(tr)
         /\ p_idx' = StartIndex(tr)
         /\ p_pc' = "for"

\* main, lines 460-475 (and 489-500 when the tracking file is kept)
P_Start ==
    /\ p_pc = "start"
    /\ \E continue_test \in BOOLEAN :
         LET loaded == LoadTracking(tracking_file)
         IN  /\ p_loaded' = [from |-> tracking_file.kind, got |-> loaded]
             /\ IF continue_test
                THEN /\ tracking' = loaded
                     /\ EnterLoop(loaded)
                     /\ UNCHANGED << tracking_file, p_clean >>
                ELSE /\ tracking' = ResetTracking(loaded)
                     /\ tracking_file' = EmptyFile
                     /\ p_pc' = "reset_save"
                     /\ p_clean' = (p_clean /\ p_runs = 1)
                     /\ UNCHANGED << p_idx, p_start_index >>
    /\ p_just_saved' = NoSave
    /\ UNCHANGED << question_file, num_questions, questions, p_read, retry_count, agents_fail,
                    results, complete_result, p_attempt, p_log, p_runs, p_saved,
                    p_kill >>
    /\ p_last' = NoAttempt
    /\ UNCHANGED w_vars
    /\ UNCHANGED c_vars
    /\ UNCHANGED n_vars

\* _save_tracking of line 474 returns; lines 489-500
P_ResetSave ==
    /\ p_pc = "reset_save"
    /\ tracking_file' = SavedFile(tracking)
    /\ p_saved' = p_saved \cup {tracking.last_index}
    /\ EnterLoop(tracking)
    /\ p_just_saved' = NoSave
    /\ UNCHANGED << question_file, num_questions, questions, p_read, retry_count, agents_fail,
                    tracking, results, complete_result, p_attempt, p_loaded,
                    p_log, p_runs, p_kill, p_clean >>
    /\ p_last' = NoAttempt
    /\ UNCHANGED w_vars
    /\ UNCHANGED c_vars
    /\ UNCHANGED n_vars

\* main, lines 501-519, for the row `item` found at questions[idx]: a row
\* without question text or db_id is skipped (last_attempted is saved), any
\* other row enters the retry loop
ForNext(item) ==
    IF Skipped(item)
    THEN /\ tracking' = [tracking EXCEPT !.last_attempted = p_idx]
         /\ tracking_file' = EmptyFile
         /\ p_pc' = "skip_save"
         /\ UNCHANGED << p_attempt, agents_fail >>
    ELSE /\ p_attempt' = 0
         /\ p_pc' = "while"
         /\ IF agents_fail[p_idx] < 0
            THEN \E f \in 0 .. retry_count :
                     agents_fail' = [agents_fail EXCEPT ![p_idx] = f]
            ELSE UNCHANGED agents_fail
         /\ UNCHANGED << tracking, tracking_file >>

\* main, lines 501-519: the next idx of the for loop. The rows of the question
\* file are fixed; the model draws a row the first time main reads it.
P_ForNext ==
    /\ p_pc = "for"
    /\ p_idx < num_questions
    /\ IF p_idx \in p_read
       THEN /\ ForNext(Question(p_idx))
            /\ UNCHANGED << questions, p_read >>
       ELSE \E item \in Rows :
              /\ questions' = [questions EXCEPT ![p_idx] = item]
              /\ p_read' = p_read \cup {p_idx}
              /\ ForNext(item)
    /\ p_just_saved' = NoSave
    /\ UNCHANGED << question_file, num_questions, retry_count, results, complete_result, p_idx,
                    p_start_index, p_loaded, p_log, p_runs, p_saved, p_kill,
                    p_clean >>
    /\ p_last' = NoAttempt
    /\ UNCHANGED w_vars
    /\ UNCHANGED c_vars
    /\ UNCHANGED n_vars

\* the for loop is exhausted: main returns
P_ForEnd ==
    /\ p_pc = "for"
    /\ ~(p_idx < num_questions)
    /\ p_pc' = "done"
    /\ p_just_saved' = NoSave
    /\ UNCHANGED << question_file, num_questions, questions, p_read, retry_count, agents_fail,
                    tracking, tracking_file, results, complete_result, p_idx,
                    p_attempt, p_start_index, p_loaded, p_log, p_runs, p_saved,
                    p_kill, p_clean >>
    /\ p_last' = NoAttempt
    /\ UNCHANGED w_vars
    /\ UNCHANGED c_vars
    /\ UNCHANGED n_vars

\* _save_tracking of line 508 / 513 returns; continue
P_SkipSave ==
    /\ p_pc = "skip_save"
    /\ tracking_file' = SavedFile(tracking)
    /\ p_saved' = p_saved \cup {tracking.last_index}
    /\ p_idx' = p_idx + 1
    /\ p_pc' = "for"
    /\ p_just_saved' = [after |-> "skip", k |-> p_idx]
    /\ UNCHANGED << question_file, num_questions, questions, p_read, retry_count, agents_fail,
                    tracking, results, complete_result, p_attempt,
                    p_start_index, p_loaded, p_log, p_runs, p_kill, p_clean >>
    /\ p_last' = NoAttempt
    /\ UNCHANGED w_vars
    /\ UNCHANGED c_vars
    /\ UNCHANGED n_vars

\* main, lines 520-537 and 559-578: one pass of the retry loop, up to the write
\* of the prediction line (success), the sleep (failure with attempts left) or
\* the opening of progress.json for the failure's save (last failure)
P_Attempt ==
    /\ p_pc = "while"
    /\ PRetryGuard(p_attempt, retry_count)
    /\ p_attempt' = p_attempt + 1
    /\ \E r \in {RunAgents(a, b, c) : a \in PA, b \in PB, c \in PC} :
         /\ AttemptOk(r) <=> (p_attempt + 1 > agents_fail[p_idx])
         /\ p_last' = LastRun(p_idx, r)
         /\ IF AttemptOk(r)
            THEN /\ results' = Append(results, p_idx)
                 /\ p_log' = [p_log EXCEPT ![p_idx].starts = @ + 1]
                 /\ p_pc' = "complete"
                 /\ UNCHANGED << tracking, tracking_file >>
            ELSE IF WaitGuard(p_attempt + 1, retry_count)
            THEN /\ p_log' = [p_log EXCEPT ![p_idx].starts = @ + 1,
                                           ![p_idx].retries = @ + 1,
                                           ![p_idx].waits = @ + 1]
                 /\ UNCHANGED << results, tracking, tracking_file, p_pc >>
            ELSE /\ p_log' = [p_log EXCEPT ![p_idx].starts = @ + 1,
                                           ![p_idx].failed = @ + 1]
                 /\ tracking' = [tracking EXCEPT
                       !.last_attempted = p_idx,
                       !.failures = Append(@, p_idx)]
                 /\ tracking_file' = EmptyFile
                 /\ p_pc' = "fail_save"
                 /\ UNCHANGED results
    /\ p_just_saved' = NoSave
    /\ UNCHANGED << question_file, num_questions, questions, p_read, retry_count, agents_fail,
                    complete_result, p_idx, p_start_index, p_loaded, p_runs,
                    p_saved, p_kill, p_clean >>
    /\ UNCHANGED w_vars
    /\ UNCHANGED c_vars
    /\ UNCHANGED n_vars

\* main, lines 538-556: the record goes to the complete-result file, the
\* tracking dict advances and progress.json is opened for writing
P_AppendComplete ==
    /\ p_pc = "complete"
    /\ complete_result' = Append(complete_result, p_idx)
    /\ tracking' = Advance(tracking, p_idx)
    /\ tracking_file' = EmptyFile
    /\ p_pc' = "ok_save"
    /\ p_just_saved' = NoSave
    /\ UNCHANGED << question_file, num_questions, questions, p_read, retry_count, agents_fail,
                    results, p_idx, p_attempt, p_start_index, p_loaded, p_log,
                    p_runs, p_saved, p_kill, p_clean >>
    /\ UNCHANGED p_last
    /\ UNCHANGED w_vars
    /\ UNCHANGED c_vars
    /\ UNCHANGED n_vars

\* _save_tracking of line 556 returns; lines 557-558: log and break
P_OkSave ==
    /\ p_pc = "ok_save"
    /\ tracking_file' = SavedFile(tracking)
    /\ p_saved' = p_saved \cup {tracking.last_index}
    /\ p_log' = [p_log EXCEPT ![p_idx].done = @ + 1]
    /\ p_idx' = p_idx + 1
    /\ p_pc' = "for"
    /\ p_just_saved' = [after |-> "ok", k |-> p_idx]
    /\ UNCHANGED << question_file, num_questions, questions, p_read, retry_count, agents_fail,
                    tracking, results, complete_result, p_attempt,
                    p_start_index, p_loaded, p_runs, p_kill, p_clean >>
    /\ p_last' = NoAttempt
    /\ UNCHANGED w_vars
    /\ UNCHANGED c_vars
    /\ UNCHANGED n_vars

\* _save_tracking of line 578 returns: the body of the while loop is over
P_FailSave ==
    /\ p_pc = "fail_save"
    /\ tracking_file' = SavedFile(tracking)
    /\ p_saved' = p_saved \cup {tracking.last_index}
    /\ p_pc' = "while"
    /\ p_just_saved' = [after |-> "fail", k |-> p_idx]
    /\ UNCHANGED << question_file, num_questions, questions, p_read, retry_count, agents_fail,
                    tracking, results, complete_result, p_idx, p_attempt,
                    p_start_index, p_loaded, p_log, p_runs, p_kill, p_clean >>
    /\ p_last' = NoAttempt
    /\ UNCHANGED w_vars
    /\ UNCHANGED c_vars
    /\ UNCHANGED n_vars

\* the while loop ends without a break (attempt < retry_count is false): the
\* for loop goes on with the next idx
P_WhileExit ==
    /\ p_pc = "while"
    /\ ~PRetryGuard(p_attempt, retry_count)
    /\ p_idx' = p_idx + 1
    /\ p_pc' = "for"
    /\ UNCHANGED << question_file, num_questions, questions, p_read, retry_count, agents_fail,
                    tracking, tracking_file, results, complete_result,
                    p_attempt, p_start_index, p_loaded, p_log, p_runs, p_saved,
                    p_just_saved, p_kill, p_clean >>
    /\ p_last' = NoAttempt
    /\ UNCHANGED w_vars
    /\ UNCHANGED c_vars
    /\ UNCHANGED n_vars

\* the positions of main at which progress.json is open for writing
Saving == {"reset_save", "skip_save", "ok_save", "fail_save"}
Running == {"for", "while", "complete"} \cup Saving

\* the process is killed (or the machine stops). Inside _save_tracking the file
\* is left as the kill finds it: still empty, or cut in the middle of the dump.
\* What the process held in memory is gone.
P_Kill ==
    /\ p_pc \in Running
    /\ p_runs < MaxRuns
    /\ p_pc' = "dead"
    /\ IF p_pc \in Saving
       THEN tracking_file' \in {EmptyFile, CorruptFile}
       ELSE UNCHANGED tracking_file
    /\ p_kill' = p_just_saved
    /\ p_clean' = (p_clean /\ p_just_saved # NoSave)
    /\ tracking' = FreshTracking
    /\ p_idx' = 0
    /\ p_attempt' = 0
    /\ p_just_saved' = NoSave
    /\ p_log' = [i \in QIndices |-> NoLog]
    /\ p_start_index' = 0
    /\ p_loaded' = NotLoaded
    /\ UNCHANGED << question_file, num_questions, questions, p_read, retry_count, agents_fail,
                    results, complete_result, p_runs, p_saved >>
    /\ p_last' = NoAttempt
    /\ UNCHANGED w_vars
    /\ UNCHANGED c_vars
    /\ UNCHANGED n_vars

\* the program is started again on the same test folder and question file
P_Restart ==
    /\ p_pc = "dead"
    /\ p_runs < MaxRuns
    /\ p_runs' = p_runs + 1
    /\ p_pc' = "start"
    /\ UNCHANGED << question_file, num_questions, questions, p_read, retry_count,
                    agents_fail, tracking, tracking_file, results,
                    complete_result, p_idx, p_attempt, p_start_index, p_loaded,
                    p_log, p_saved, p_just_saved, p_kill, p_clean >>
    /\ UNCHANGED p_last
    /\ UNCHANGED w_vars
    /\ UNCHANGED c_vars
    /\ UNCHANGED n_vars

(* ----------------------------- combiner -------------------------------- *)

\* the folders chunks_root can hold, each named test_chuck_<digits>: the name
\* is modelled by its digits ("", "2", "10", "02")
ChildNames == {<< >>, << 2 >>, << 1, 0 >>, << 0, 2 >>}

\* CHUNK_DIR_PATTERN.match(child.name): test_chuck_ followed by one digit or more
Matches(name) == Len(name) >= 1

RECURSIVE DecimalValue(_)
DecimalValue(digits) ==
    IF digits = << >> THEN 0
    ELSE 10 * DecimalValue(SubSeq(digits, 1, Len(digits) - 1)) + digits[Len(digits)]

\* the rank of a name of at most two digits in the order of strings
ChunkNoLexical(name) ==
    IF Len(name) = 1 THEN 11 * (name[1] + 1)
    ELSE 11 * (name[1] + 1) + (name[2] + 1)
\* chunk_no = int(match.group(1))
ChunkNo(name) == DecimalValue(name)

\* sorted(chunk_dirs, key=lambda item: item[0]): a stable sort
RECURSIVE InsertByNo(_, _)
InsertByNo(x, q) ==
    IF q = << >> THEN << x >>
    ELSE IF ChunkNo(x) < ChunkNo(Head(q)) THEN << x >> \o q
    ELSE << Head(q) >> \o InsertByNo(x, Tail(q))
RECURSIVE SortedByNo(_)
SortedByNo(q) ==
    IF q = << >> THEN << >>
    ELSE InsertByNo(q[Len(q)], SortedByNo(SubSeq(q, 1, Len(q) - 1)))

\* the matching children in the order of iterdir, unsorted
FindChunkDirsUnsorted(listing) == SelectSeq(listing, Matches)
\* _find_chunk_dirs, for the order `listing` in which iterdir yields the children
FindChunkDirs(listing) == SortedByNo(SelectSeq(listing, Matches))

\* the orders in which iterdir can yield the children
Listings(children) ==
    {f \in [1 .. Cardinality(children) -> children] :
        \A i, j \in 1 .. Cardinality(children) : i # j => f[i] # f[j]}

\* what main reads in one chunk folder (nothing has been read yet: seen FALSE);
\* the lines of a file main does not read are left out (n_pred 0).
\* successful_predictions and integrity_ok are the values of
\* summary.get(..., -1) and summary.get(..., False); summary_loads is FALSE
\* for a summary.json that json.load or the int() of lines 172-173 rejects
\* (its fields are then never read)
NoContent ==
    [seen |-> FALSE, has_predictions |-> FALSE, has_debug |-> FALSE,
     n_pred |-> 0, n_debug |-> 0, has_summary |-> FALSE, summary_loads |-> TRUE,
     successful_predictions |-> -1, integrity_ok |-> FALSE]
DirContents ==
    {c \in [seen : {TRUE}, has_predictions : BOOLEAN, has_debug : BOOLEAN,
            n_pred : 0 .. MaxLines, n_debug : {0, DebugLines},
            has_summary : BOOLEAN, summary_loads : BOOLEAN,
            successful_predictions : -1 .. (MaxLines + 1),
            integrity_ok : BOOLEAN] :
        /\ c.n_debug = (IF c.has_debug THEN DebugLines ELSE 0)
        /\ ~c.has_summary => c.summary_loads
        /\ ~c.summary_loads => c.successful_predictions = c.n_pred /\ c.integrity_ok
        /\ ~(c.has_predictions /\ c.has_debug)
             => c.n_pred = 0 /\ ~c.has_summary
        /\ ~c.has_summary => c.successful_predictions = -1 /\ ~c.integrity_ok
        /\ c.has_summary => c.successful_predictions \in {-1, c.n_pred, c.n_pred + 1}}

\* _read_lines: line j of a file of folder `name` (file: "p" or "d")
Lines(name, file, n) == [j \in 1 .. n |-> << name, file, j >>]

\* missing: predictions.txt or predictions_debug.jsonl does not exist
MissingBad(c) == ~c.has_predictions /\ ~c.has_debug
Missing(c) == ~c.has_predictions \/ ~c.has_debug

\* mismatch = successful_predictions >= 0 and successful_predictions != len(prediction_lines)
Mismatch(c) == c.successful_predictions >= 0 /\ c.successful_predictions # c.n_pred

\* if args.strict: return 2
StrictAbortBad(strict_mode) == FALSE
StrictAbort(strict_mode) == strict_mode

\* summary = _load_json(summary_path) and the int() of lines 171-173 raise
SummaryRaises(c) == c.has_summary /\ ~c.summary_loads

\* the body of main's for loop, lines 130-211, for folder `name` holding c:
\* the warnings appended to report["warnings"], chunk_report (appended: whether
\* it reached report["chunks"]), whether main returns 2, and whether an
\* exception leaves main (raised)
ChunkStep(name, c, strict_mode) ==
    LET base == [chunk_no |-> ChunkNo(name), name |-> name, prediction_lines |-> 0,
                 debug_lines |-> 0, used |-> FALSE, warning |-> "none"]
        read == [base EXCEPT !.prediction_lines = c.n_pred,
                             !.debug_lines = c.n_debug]
    IN  IF Missing(c)
        THEN [warnings |-> << "missing" >>,
              chunk_report |-> [base EXCEPT !.warning = "missing"],
              appended |-> TRUE,
              abort |-> StrictAbort(strict_mode), raised |-> FALSE]
        ELSE IF SummaryRaises(c)
        THEN [warnings |-> << >>, chunk_report |-> read, appended |-> FALSE,
              abort |-> FALSE, raised |-> TRUE]
        ELSE IF ~c.has_summary
        THEN [warnings |-> << "no_summary" >>,
              chunk_report |-> [read EXCEPT !.warning = "no_summary",
                                            !.used = ~StrictAbort(strict_mode)],
              appended |-> ~StrictAbort(strict_mode),
              abort |-> StrictAbort(strict_mode), raised |-> FALSE]
        ELSE IF Mismatch(c) /\ StrictAbort(strict_mode)
        THEN [warnings |-> << "mismatch" >>,
              chunk_report |-> [read EXCEPT !.warning = "mismatch"],
              appended |-> FALSE,
              abort |-> TRUE, raised |-> FALSE]
        ELSE LET w1 == IF Mismatch(c) THEN << "mismatch" >> ELSE << >>
                 w2 == IF ~c.integrity_ok THEN << "integrity" >> ELSE << >>
                 stop == ~c.integrity_ok /\ StrictAbort(strict_mode)
             IN  [warnings |-> w1 \o w2,
                  chunk_report |->
                      [read EXCEPT !.warning = IF Mismatch(c) THEN "mismatch"
                                                ELSE IF ~c.integrity_ok THEN "integrity"
                                                ELSE "none",
                                   !.used = ~stop],
                  appended |-> ~stop,
                  abort |-> stop, raised |-> FALSE]

NoReport == [chunks |-> << >>, warnings |-> << >>]
NoOutput == [written |-> FALSE, predictions |-> << >>, debug |-> << >>,
             report |-> NoReport, output_path |-> "none",
             chunk_files |-> [n \in ChildNames |-> NoContent]]

\* args.output (lines 85, 102): unset, so that output_path is
\* output_root/predictions_combined.txt ("combined"), or the path of
\* predictions.txt in the first chunk folder found ("chunk")
OutputPaths == {"combined", "chunk"}
\* the chunk folders after output_path.open("w") and the writes of lines
\* 213-215, whatever output_path is
WriteOutputBad(files, output_path, dirs, lines) ==
    IF dirs # << >>
    THEN [files EXCEPT ![dirs[1]] = [@ EXCEPT !.has_predictions = TRUE,
                                              !.n_pred = Len(lines)]]
    ELSE files
\* the chunk folders after output_path.open("w") and the writes of lines
\* 213-215
WriteOutput(files, output_path, dirs, lines) ==
    IF output_path = "chunk" /\ dirs # << >>
    THEN [files EXCEPT ![dirs[1]] = [@ EXCEPT !.has_predictions = TRUE,
                                              !.n_pred = Len(lines)]]
    ELSE files

\* if not chunk_dirs
NoChunksBad(dirs) == FALSE
NoChunks(dirs) == dirs = << >>

\* main, lines 106-127
C_Find ==
    /\ c_pc = "find"
    /\ \E listing \in Listings(c_children) :
         /\ chunk_dirs' = FindChunkDirs(listing)
         /\ IF NoChunks(FindChunkDirs(listing))
            THEN /\ c_rc' = 1
                 /\ c_pc' = "done"
            ELSE /\ c_pc' = "loop"
                 /\ UNCHANGED c_rc
    /\ c_i' = 1
    /\ UNCHANGED << c_children, c_files, strict, merged_prediction_lines,
                    merged_debug_lines, report, c_out >>
    /\ UNCHANGED w_vars
    /\ UNCHANGED p_vars
    /\ UNCHANGED n_vars

\* main, lines 129-211: one turn of the for loop (an exception of _load_json
\* or int() is caught nowhere: the process ends with a traceback, "raised")
C_Chunk ==
    /\ c_pc = "loop"
    /\ c_i <= Len(chunk_dirs)
    /\ \E c \in DirContents :
         LET name == chunk_dirs[c_i]
             r == ChunkStep(name, c, strict)
         IN  /\ c_files' = [c_files EXCEPT ![name] = c]
             /\ report' =
                  [chunks |-> IF r.appended
                              THEN Append(report.chunks, r.chunk_report)
                              ELSE report.chunks,
                   warnings |-> report.warnings \o
                       [j \in 1 .. Len(r.warnings) |->
                           [chunk_no |-> ChunkNo(name), name |-> name,
                            kind |-> r.warnings[j]]]]
             /\ IF r.chunk_report.used
                THEN /\ merged_prediction_lines' =
                          merged_prediction_lines \o Lines(name, "p", c.n_pred)
                     /\ merged_debug_lines' =
                          merged_debug_lines \o Lines(name, "d", c.n_debug)
                ELSE UNCHANGED << merged_prediction_lines, merged_debug_lines >>
             /\ IF r.raised
                THEN /\ c_pc' = "raised"
                     /\ UNCHANGED << c_rc, c_i >>
                ELSE IF r.abort
                THEN /\ c_rc' = 2
                     /\ c_pc' = "done"
                     /\ UNCHANGED c_i
                ELSE /\ c_i' = c_i + 1
                     /\ UNCHANGED << c_rc, c_pc >>
    /\ UNCHANGED << c_children, strict, chunk_dirs, c_out >>
    /\ UNCHANGED w_vars
    /\ UNCHANGED p_vars
    /\ UNCHANGED n_vars

\* main, lines 213-237: the for loop is over, the three files are written
\* (c_files keeps what main read in the chunk folders; chunk_files is what the
\* folders hold once the files are written)
C_Write ==
    /\ c_pc = "loop"
    /\ c_i > Len(chunk_dirs)
    /\ \E output_path \in OutputPaths :
         /\ c_out' = [written |-> TRUE,
                      predictions |-> merged_prediction_lines,
                      debug |-> merged_debug_lines,
                      report |-> report,
                      output_path |-> output_path,
                      chunk_files |-> WriteOutput(c_files, output_path,
                                                  chunk_dirs,
                                                  merged_prediction_lines)]
    /\ c_rc' = 0
    /\ c_pc' = "done"
    /\ UNCHANGED << c_children, c_files, strict, chunk_dirs, c_i,
                    merged_prediction_lines, merged_debug_lines, report >>
    /\ UNCHANGED w_vars
    /\ UNCHANGED p_vars
    /\ UNCHANGED n_vars

(* -------------------------- specifications ----------------------------- *)

\* the chunk writer is started; the checkpointed runner is off
WriterInit ==
    /\ w_pc = "main"
    /\ total_examples \in 0 .. MaxExamples
    /\ from_case \in -1 .. MaxExamples
    /\ to_case \in -1 .. MaxExamples
    /\ chunk_size \in 1 .. MaxChunkSize
    /\ max_retries \in 0 .. MaxRetries
    /\ use_gold_db \in BOOLEAN
    /\ start_index = 0
    /\ end_index = 0
    /\ chunk_no = 0
    /\ current = 0
    /\ chunk_start = 0
    /\ chunk_end = 0
    /\ chunk_ok = 0
    /\ stop_all = FALSE
    /\ w_idx = 0
    /\ w_row = NoRow
    /\ w_attempt = 0
    /\ success = FALSE
    /\ w_chunks = << >>
    /\ w_log = [i \in Indices |-> [attempts |-> 0, failed |-> 0]]
    /\ w_rc = -1
    /\ w_last = NoAttempt
    /\ w_left = {}
    /\ w_run = 1
    /\ p_pc = "off"
    /\ num_questions = 0
    /\ questions = [i \in QIndices |-> NoRow]
    /\ p_read = {}
    /\ retry_count = 1
    /\ agents_fail = [i \in QIndices |-> -1]
    /\ question_file = "q1"
    /\ tracking = FreshTracking
    /\ tracking_file = NoFile
    /\ results = << >>
    /\ complete_result = << >>
    /\ p_idx = 0
    /\ p_attempt = 0
    /\ p_start_index = 0
    /\ p_loaded = NotLoaded
    /\ p_log = [i \in QIndices |-> NoLog]
    /\ p_runs = 0
    /\ p_saved = {}
    /\ p_just_saved = NoSave
    /\ p_kill = NoSave
    /\ p_clean = TRUE
    /\ p_last = NoAttempt
    /\ c_pc = "off"
    /\ c_children = {}
    /\ c_files = [n \in ChildNames |-> NoContent]
    /\ strict = FALSE
    /\ chunk_dirs = << >>
    /\ c_i = 1
    /\ merged_prediction_lines = << >>
    /\ merged_debug_lines = << >>
    /\ report = NoReport
    /\ c_out = NoOutput
    /\ c_rc = -1
    /\ n_pc = "off"
    /\ c_result = << >>
    /\ prediction_sql = << >>
    /\ pred_f = << >>

\* the checkpointed runner is started in a new test folder (no progress.json,
\* no predictions file); the chunk writer is off
RunnerInit ==
    /\ p_pc = "start"
    /\ num_questions \in 0 .. MaxQuestions
    /\ questions = [i \in QIndices |-> NoRow]
    /\ p_read = {}
    /\ retry_count \in 1 .. MaxRetryCount
    /\ agents_fail = [i \in QIndices |-> -1]
    /\ question_file = "q1"
    /\ tracking = FreshTracking
    /\ tracking_file = NoFile
    /\ results = << >>
    /\ complete_result = << >>
    /\ p_idx = 0
    /\ p_attempt = 0
    /\ p_start_index = 0
    /\ p_loaded = NotLoaded
    /\ p_log = [i \in QIndices |-> NoLog]
    /\ p_runs = 1
    /\ p_saved = {}
    /\ p_just_saved = NoSave
    /\ p_kill = NoSave
    /\ p_clean = TRUE
    /\ p_last = NoAttempt
    /\ w_pc = "off"
    /\ total_examples = 0
    /\ from_case = 0
    /\ to_case = 0
    /\ chunk_size = 1
    /\ max_retries = 0
    /\ use_gold_db = FALSE
    /\ start_index = 0
    /\ end_index = 0
    /\ chunk_no = 0
    /\ current = 0
    /\ chunk_start = 0
    /\ chunk_end = 0
    /\ chunk_ok = 0
    /\ stop_all = FALSE
    /\ w_idx = 0
    /\ w_row = NoRow
    /\ w_attempt = 0
    /\ success = FALSE
    /\ w_chunks = << >>
    /\ w_log = [i \in Indices |-> [attempts |-> 0, failed |-> 0]]
    /\ w_rc = -1
    /\ w_last = NoAttempt
    /\ w_left = {}
    /\ w_run = 1
    /\ c_pc = "off"
    /\ c_children = {}
    /\ c_files = [n \in ChildNames |-> NoContent]
    /\ strict = FALSE
    /\ chunk_dirs = << >>
    /\ c_i = 1
    /\ merged_prediction_lines = << >>
    /\ merged_debug_lines = << >>
    /\ report = NoReport
    /\ c_out = NoOutput
    /\ c_rc = -1
    /\ n_pc = "off"
    /\ c_result = << >>
    /\ prediction_sql = << >>
    /\ pred_f = << >>

\* the combiner is started on a folder of chunks; the other programs are off
CombinerInit ==
    /\ c_pc = "find"
    /\ c_children \in SUBSET ChildNames
    /\ c_files = [n \in ChildNames |-> NoContent]
    /\ strict \in BOOLEAN
    /\ chunk_dirs = << >>
    /\ c_i = 1
    /\ merged_prediction_lines = << >>
    /\ merged_debug_lines = << >>
    /\ report = NoReport
    /\ c_out = NoOutput
    /\ c_rc = -1
    /\ n_pc = "off"
    /\ c_result = << >>
    /\ prediction_sql = << >>
    /\ pred_f = << >>
    /\ w_pc = "off"
    /\ total_examples = 0
    /\ from_case = 0
    /\ to_case = 0
    /\ chunk_size = 1
    /\ max_retries = 0
    /\ use_gold_db = FALSE
    /\ start_index = 0
    /\ end_index = 0
    /\ chunk_no = 0
    /\ current = 0
    /\ chunk_start = 0
    /\ chunk_end = 0
    /\ chunk_ok = 0
    /\ stop_all = FALSE
    /\ w_idx = 0
    /\ w_row = NoRow
    /\ w_attempt = 0
    /\ success = FALSE
    /\ w_chunks = << >>
    /\ w_log = [i \in Indices |-> [attempts |-> 0, failed |-> 0]]
    /\ w_rc = -1
    /\ w_last = NoAttempt
    /\ w_left = {}
    /\ w_run = 1
    /\ p_pc = "off"
    /\ num_questions = 0
    /\ questions = [i \in QIndices |-> NoRow]
    /\ p_read = {}
    /\ retry_count = 1
    /\ agents_fail = [i \in QIndices |-> -1]
    /\ question_file = "q1"
    /\ tracking = FreshTracking
    /\ tracking_file = NoFile
    /\ results = << >>
    /\ complete_result = << >>
    /\ p_idx = 0
    /\ p_attempt = 0
    /\ p_start_index = 0
    /\ p_loaded = NotLoaded
    /\ p_log = [i \in QIndices |-> NoLog]
    /\ p_runs = 0
    /\ p_saved = {}
    /\ p_just_saved = NoSave
    /\ p_kill = NoSave
    /\ p_clean = TRUE
    /\ p_last = NoAttempt

\* one run of the combiner
C_Next ==
    \/ C_Find
    \/ C_Chunk
    \/ C_Write

CombinerSpec == CombinerInit /\ [][C_Next]_vars

\* agent C has returned a string for one question; the three programs' own
\* state is left out
NormalizeInit ==
    /\ n_pc = "input"
    /\ c_result \in Strings(MaxChars)
    /\ prediction_sql = << >>
    /\ pred_f = << >>
    /\ w_pc = "off"
    /\ total_examples = 0
    /\ from_case = 0
    /\ to_case = 0
    /\ chunk_size = 1
    /\ max_retries = 0
    /\ use_gold_db = FALSE
    /\ start_index = 0
    /\ end_index = 0
    /\ chunk_no = 0
    /\ current = 0
    /\ chunk_start = 0
    /\ chunk_end = 0
    /\ chunk_ok = 0
    /\ stop_all = FALSE
    /\ w_idx = 0
    /\ w_row = NoRow
    /\ w_attempt = 0
    /\ success = FALSE
    /\ w_chunks = << >>
    /\ w_log = [i \in Indices |-> [attempts |-> 0, failed |-> 0]]
    /\ w_rc = -1
    /\ w_last = NoAttempt
    /\ w_left = {}
    /\ w_run = 1
    /\ p_pc = "off"
    /\ num_questions = 0
    /\ questions = [i \in QIndices |-> NoRow]
    /\ p_read = {}
    /\ retry_count = 1
    /\ agents_fail = [i \in QIndices |-> -1]
    /\ question_file = "q1"
    /\ tracking = FreshTracking
    /\ tracking_file = NoFile
    /\ results = << >>
    /\ complete_result = << >>
    /\ p_idx = 0
    /\ p_attempt = 0
    /\ p_start_index = 0
    /\ p_loaded = NotLoaded
    /\ p_log = [i \in QIndices |-> NoLog]
    /\ p_runs = 0
    /\ p_saved = {}
    /\ p_just_saved = NoSave
    /\ p_kill = NoSave
    /\ p_clean = TRUE
    /\ p_last = NoAttempt
    /\ c_pc = "off"
    /\ c_children = {}
    /\ c_files = [n \in ChildNames |-> NoContent]
    /\ strict = FALSE
    /\ chunk_dirs = << >>
    /\ c_i = 1
    /\ merged_prediction_lines = << >>
    /\ merged_debug_lines = << >>
    /\ report = NoReport
    /\ c_out = NoOutput
    /\ c_rc = -1

N_Next ==
    \/ N_Normalize
    \/ N_Write

NormalizeSpec == NormalizeInit /\ [][N_Next]_vars

\* one run of the chunk writer
W_Next ==
    \/ W_Main
    \/ W_ChunkBegin
    \/ W_RunComplete
    \/ W_ForNext
    \/ W_ForEnd
    \/ W_Attempt
    \/ W_AfterWhile
    \/ W_Summary

WriterSpec == WriterInit /\ [][W_Next]_vars

\* one run of the chunk writer in which the write of a debug record can fail
WFault_Next ==
    \/ W_Main
    \/ W_ChunkBegin
    \/ W_RunComplete
    \/ W_ForNext
    \/ W_ForEnd
    \/ W_Attempt
    \/ W_AfterWhile
    \/ W_Summary
    \/ W_AttemptDebugFails

WriterFaultSpec == WriterInit /\ [][WFault_Next]_vars

\* the checkpointed runner, killed and started again up to MaxRuns times
P_Next ==
    \/ P_Start
    \/ P_ResetSave
    \/ P_ForNext
    \/ P_ForEnd
    \/ P_SkipSave
    \/ P_Attempt
    \/ P_AppendComplete
    \/ P_OkSave
    \/ P_FailSave
    \/ P_WhileExit
    \/ P_Kill
    \/ P_Restart

RunnerSpec == RunnerInit /\ [][P_Next]_vars

\* the checkpoint an earlier run on question file f left when it was stopped
\* right after the save of question k (k = -1: right after its reset), every
\* question up to k having succeeded
LeftBy(f, k) ==
    [question_file |-> f, last_index |-> k, last_attempted |-> k,
     status |-> IF k < 0 THEN "new" ELSE "running", failures |-> << >>]

\* a start of the runner on a test folder an earlier run may have used, with
\* the same question file or with another one, and with any retry_count the
\* config file can hold (it is not validated; a negative one acts as 0)
ResumeInit ==
    /\ p_pc = "start"
    /\ num_questions \in 0 .. MaxQuestions
    /\ questions = [i \in QIndices |-> NoRow]
    /\ p_read = {}
    /\ retry_count \in 0 .. MaxRetryCount
    /\ agents_fail = [i \in QIndices |-> -1]
    /\ question_file \in QuestionFiles
    /\ tracking = FreshTracking
    /\ tracking_file \in {NoFile} \cup {SavedFile(LeftBy(f, k)) :
                             f \in QuestionFiles, k \in -1 .. MaxQuestions - 1}
    /\ results = [i \in 1 .. LoadTracking(tracking_file).last_index + 1 |-> i - 1]
    /\ complete_result = results
    /\ p_idx = 0
    /\ p_attempt = 0
    /\ p_start_index = 0
    /\ p_loaded = NotLoaded
    /\ p_log = [i \in QIndices |-> NoLog]
    /\ p_runs = 1
    /\ p_saved = {}
    /\ p_just_saved = NoSave
    /\ p_kill = NoSave
    /\ p_clean = FALSE
    /\ p_last = NoAttempt
    /\ w_pc = "off"
    /\ total_examples = 0
    /\ from_case = 0
    /\ to_case = 0
    /\ chunk_size = 1
    /\ max_retries = 0
    /\ use_gold_db = FALSE
    /\ start_index = 0
    /\ end_index = 0
    /\ chunk_no = 0
    /\ current = 0
    /\ chunk_start = 0
    /\ chunk_end = 0
    /\ chunk_ok = 0
    /\ stop_all = FALSE
    /\ w_idx = 0
    /\ w_row = NoRow
    /\ w_attempt = 0
    /\ success = FALSE
    /\ w_chunks = << >>
    /\ w_log = [i \in Indices |-> [attempts |-> 0, failed |-> 0]]
    /\ w_rc = -1
    /\ w_last = NoAttempt
    /\ w_left = {}
    /\ w_run = 1
    /\ c_pc = "off"
    /\ c_children = {}
    /\ c_files = [n \in ChildNames |-> NoContent]
    /\ strict = FALSE
    /\ chunk_dirs = << >>
    /\ c_i = 1
    /\ merged_prediction_lines = << >>
    /\ merged_debug_lines = << >>
    /\ report = NoReport
    /\ c_out = NoOutput
    /\ c_rc = -1
    /\ n_pc = "off"
    /\ c_result = << >>
    /\ prediction_sql = << >>
    /\ pred_f = << >>

R_Next ==
    \/ P_Start
    \/ P_ResetSave
    \/ P_ForNext
    \/ P_ForEnd
    \/ P_SkipSave
    \/ P_Attempt
    \/ P_AppendComplete
    \/ P_OkSave
    \/ P_FailSave
    \/ P_WhileExit

ResumeSpec == ResumeInit /\ [][R_Next]_vars

\* one uninterrupted run of either program
Init ==
    \/ WriterInit
    \/ RunnerInit

Next ==
    \/ W_Main
    \/ W_ChunkBegin
    \/ W_RunComplete
    \/ W_ForNext
    \/ W_ForEnd
    \/ W_Attempt
    \/ W_AfterWhile
    \/ W_Summary
    \/ P_Start
    \/ P_ResetSave
    \/ P_ForNext
    \/ P_ForEnd
    \/ P_SkipSave
    \/ P_Attempt
    \/ P_AppendComplete
    \/ P_OkSave
    \/ P_FailSave
    \/ P_WhileExit

Spec == Init /\ [][Next]_vars

(* ======================= claims: chunk writer ========================= *)

\* the chunk numbers whose summary.json has been written
Summarised == {n \in DOMAIN w_chunks : w_chunks[n].summary.written}
\* the index of the failure record of chunk n's predictions_debug.jsonl, if any
FailedIn(n) == {w_chunks[n].debug[j].index :
                  j \in {k \in 1 .. Len(w_chunks[n].debug) : w_chunks[n].debug[k].error}}
\* the indices with a line in chunk n's predictions.txt / a record in its debug file
PredictedIn(n) == {w_chunks[n].predictions[j] : j \in 1 .. Len(w_chunks[n].predictions)}
DebuggedIn(n) == {w_chunks[n].debug[j].index : j \in 1 .. Len(w_chunks[n].debug)}
\* question i has failed max_retries + 1 attempts
Exhausted(i) == w_log[i].failed = max_retries + 1

\* C1: the chunk ranges written by a run tile [start_index, end_index): chunk 1
\* starts at start_index, each later chunk starts where the one before ends, no
\* chunk is empty or passes end_index, every chunk followed by another one has
\* exactly chunk_size questions, and a run that returns 0 over a non-empty range
\* has written every chunk up to end_index.
C1_ChunksPartitionRange ==
    /\ \A n \in Summarised :
         LET s == w_chunks[n].summary
         IN  /\ s.chunk_no = n
             /\ n >= 1
             /\ IF n = 1
                THEN s.range_start = start_index
                ELSE /\ (n - 1) \in Summarised
                     /\ s.range_start = w_chunks[n - 1].summary.range_end_exclusive
             /\ s.range_start < s.range_end_exclusive
             /\ s.range_end_exclusive <= end_index
             /\ ((n + 1) \in DOMAIN w_chunks
                   => s.range_end_exclusive - s.range_start = chunk_size)
    /\ (w_pc = "done" /\ w_rc = 0 /\ start_index < end_index)
         => /\ DOMAIN w_chunks = Summarised
            /\ Summarised # {}
            /\ \E n \in Summarised :
                 /\ \A m \in Summarised : m <= n
                 /\ w_chunks[n].summary.range_end_exclusive = end_index

\* a completed run of two chunks whose last chunk is shorter than chunk_size
C1_Witness ==
    /\ w_pc = "done"
    /\ w_rc = 0
    /\ Summarised = {1, 2}
    /\ w_chunks[1].summary.expected_questions = chunk_size
    /\ w_chunks[2].summary.expected_questions < chunk_size

\* C2: in every summary.json, integrity_ok is true exactly when
\* successful_predictions = expected_questions and stopped_due_to_error is false.
C2_IntegrityIff ==
    \A n \in Summarised :
        LET s == w_chunks[n].summary
        IN  s.integrity_ok <=>
              (s.successful_predictions = s.expected_questions
                 /\ ~s.stopped_due_to_error)

\* a run whose first chunk, of two questions, is integrity-ok and whose second
\* chunk was hard-stopped
C2_Witness ==
    /\ Summarised = {1, 2}
    /\ w_chunks[1].summary.integrity_ok
    /\ w_chunks[1].summary.successful_predictions = 2
    /\ w_chunks[2].summary.stopped_due_to_error
    /\ ~w_chunks[2].summary.integrity_ok

\* C3: once question i has failed all of its max_retries + 1 attempts, i belongs
\* to the chunk being written, that chunk has no prediction line and no debug
\* record of an index above i, its summary (once written) says
\* stopped_due_to_error, and the run does not end without that summary.
C3_HardStopCutsChunk ==
    \A i \in Indices :
        Exhausted(i) =>
            /\ chunk_start <= i /\ i < chunk_end
            /\ \A j \in PredictedIn(chunk_no) : ~(j > i)
            /\ \A j \in DebuggedIn(chunk_no) : ~(j > i)
            /\ (chunk_no \in Summarised
                  => w_chunks[chunk_no].summary.stopped_due_to_error)
            /\ (w_pc = "done"
                  => /\ chunk_no \in Summarised
                     /\ FailedIn(chunk_no) = {i})

\* a finished run whose chunk of two questions stopped at its first question
C3_Witness ==
    /\ w_pc = "done"
    /\ \E i \in Indices :
         /\ Exhausted(i)
         /\ chunk_end > i + 1
         /\ w_chunks[chunk_no].summary.written
         /\ w_chunks[chunk_no].summary.stopped_due_to_error
         /\ w_log[i].attempts = 2

\* C4: once a chunk's summary says stopped_due_to_error the run is over: main has
\* returned 2, no chunk folder with a higher number exists, and no question
\* above the failed one has been attempted.
C4_NoChunkAfterStop ==
    \A n \in Summarised :
        w_chunks[n].summary.stopped_due_to_error =>
            /\ w_pc = "done"
            /\ w_rc = 2
            /\ \A m \in DOMAIN w_chunks : m <= n
            /\ \A i \in FailedIn(n) : \A j \in Indices :
                 j > i => w_log[j].attempts = 0
            /\ \A j \in Indices :
                 j >= w_chunks[n].summary.range_end_exclusive
                    => w_log[j].attempts = 0

\* a run stopped in its first chunk although questions of a second chunk remain
C4_Witness ==
    /\ 1 \in Summarised
    /\ w_chunks[1].summary.stopped_due_to_error
    /\ w_chunks[1].summary.range_end_exclusive < end_index
    /\ FailedIn(1) # {}

(* ================== claims: retry loop (both programs) ================ *)

\* the number of entries of sequence q equal to x
Count(q, x) == Cardinality({j \in 1 .. Len(q) : q[j] = x})
Range(q) == {q[j] : j \in 1 .. Len(q)}
\* the questions with a line in some chunk's predictions.txt
Predicted == UNION {PredictedIn(n) : n \in DOMAIN w_chunks}
\* the questions with a failure record in some chunk's debug file
GivenUp == UNION {FailedIn(n) : n \in DOMAIN w_chunks}
\* the lines of predictions.txt / the success records of the debug file for i
PredictionLines(i) ==
    Cardinality({<< n, j >> \in (DOMAIN w_chunks) \X (1 .. MaxExamples + 1) :
                   /\ j <= Len(w_chunks[n].predictions)
                   /\ w_chunks[n].predictions[j] = i})
DebugRecords(i, err) ==
    Cardinality({<< n, j >> \in (DOMAIN w_chunks) \X (1 .. MaxExamples + 1) :
                   /\ j <= Len(w_chunks[n].debug)
                   /\ w_chunks[n].debug[j] = [index |-> i, error |-> err]})

\* C5, the state part: no question is tried more than max_retries + 1 times
\* (chunk writer) or retry_count times (checkpointed runner); a question is
\* given up (failure record / entry of tracking["failures"]) exactly when its
\* last allowed attempt has failed.
C5_Bounded ==
    /\ \A i \in Indices :
         /\ w_log[i].attempts <= max_retries + 1
         /\ i \in GivenUp
              => /\ w_log[i].attempts = max_retries + 1
                 /\ w_log[i].failed = max_retries + 1
                 /\ i \notin Predicted
         /\ (Exhausted(i) /\ ~(w_pc = "while" /\ w_idx = i)) => i \in GivenUp
    /\ \A i \in QIndices :
         /\ p_log[i].starts <= retry_count
         /\ i \in Range(tracking.failures)
              => /\ p_log[i].starts = retry_count
                 /\ p_log[i].failed = 1
                 /\ i \notin Range(results)
         /\ (p_log[i].starts = retry_count /\ i \notin Range(results))
              => i \in Range(tracking.failures)

\* C5, the step part: an attempt is only ever started for a question that has
\* no prediction yet (no attempt follows the first successful one).
C5_NoAttemptAfterSuccess ==
    /\ \A i \in Indices :
         w_log'[i].attempts > w_log[i].attempts => i \notin Predicted
    /\ \A i \in QIndices :
         p_log'[i].starts > p_log[i].starts => i \notin Range(results)

\* C5: the retry loop makes at most maxAttempts attempts per question, none
\* after the first success, and gives up exactly when attempt maxAttempts fails.
C5_RetryLoop == [] C5_Bounded /\ [][C5_NoAttemptAfterSuccess]_vars

\* the chunk writer gave a question up after two failed attempts
C5_Witness ==
    \E i \in Indices :
        /\ i \in GivenUp
        /\ max_retries = 1
        /\ w_log[i].failed = 2

OnDisk == LoadTracking(tracking_file)
\* a run has loaded its tracking dict and is past the resume decision
Resumed == p_runs >= 2 /\ p_loaded.from # "none" /\ p_pc \in Running \cup {"done"}

\* the predictions file of one uninterrupted run over questions[i ..], given the
\* stage outcomes of agents_fail: a question gets its line iff its row is not
\* skipped and one of its retry_count attempts succeeds
RECURSIVE UninterruptedFrom(_)
UninterruptedFrom(i) ==
    IF i >= num_questions THEN << >>
    ELSE IF ~Skipped(Question(i)) /\ agents_fail[i] < retry_count
    THEN << i >> \o UninterruptedFrom(i + 1)
    ELSE UninterruptedFrom(i + 1)
UninterruptedRun == UninterruptedFrom(0)

\* C7: a run that is stopped right after the save that wrote last_index = k and
\* is then continued starts its for loop at k + 1 (whatever save the stop came
\* after, it starts one past the last_index on disk), and when it ends the
\* predictions file holds the lines of one uninterrupted run, in the same
\* order; an uninterrupted run ends with those lines too.
C7_ResumeAtNext ==
    /\ (p_clean /\ Resumed /\ num_questions > 0)
         => /\ p_start_index = p_loaded.got.last_index + 1
            /\ p_kill.after = "ok" => /\ p_loaded.got.last_index = p_kill.k
                                      /\ p_start_index = p_kill.k + 1
    /\ (p_clean /\ p_runs >= 1 /\ p_pc = "done") => results = UninterruptedRun

\* a run stopped right after the save of question 0 and continued has finished
\* with the lines of questions 0 and 1
C7_Witness ==
    /\ p_clean
    /\ Resumed
    /\ p_pc = "done"
    /\ p_kill = [after |-> "ok", k |-> 0]
    /\ p_start_index = 1
    /\ results = << 0, 1 >>

\* C8: wherever the first run over a new folder can be killed, at most one
\* question with a line in the predictions file has an index above the
\* last_index of the checkpoint on disk.
C8_AtMostOneUnsaved ==
    (p_runs = 1 /\ p_pc \in Running)
        => Cardinality({i \in Range(results) : i > OnDisk.last_index}) <= 1

\* C9: in a run started from a reset checkpoint, every index up to last_index
\* (of the tracking dict, and of the checkpoint on disk) has a prediction.
C9_GaplessPrefix ==
    (p_runs = 1 /\ p_pc \in Running \cup {"done"})
        => /\ \A i \in QIndices : i <= tracking.last_index => i \in Range(results)
           /\ \A i \in QIndices : i <= OnDisk.last_index => i \in Range(results)

\* C10: _load_tracking on a missing or empty progress.json returns status "new",
\* last_index -1, last_attempted -1 and no failures; a last_index >= 0 it
\* returns is one that a _save_tracking has written before.
C10_LoadFresh ==
    /\ p_loaded.from \in {"absent", "empty"}
         => /\ p_loaded.got.status = "new"
            /\ p_loaded.got.last_index = -1
            /\ p_loaded.got.last_attempted = -1
            /\ p_loaded.got.failures = << >>
    /\ (p_loaded.from # "none" /\ p_loaded.got.last_index >= 0)
         => p_loaded.got.last_index \in p_saved

\* a run loaded an empty progress.json although a prediction was already written
C10_Witness ==
    /\ p_loaded.from = "empty"
    /\ p_loaded.got = FreshTracking
    /\ Len(results) > 0

\* C11: a run that finds a progress.json it cannot parse does not get the fresh
\* dict (status "new", last_index -1) from _load_tracking, and does not enter
\* its for loop at index 0 with the unreadable file still in place.
C11_CorruptSurfaces ==
    p_loaded.from = "corrupt"
        => /\ p_loaded.got # FreshTracking
           /\ ~(tracking_file = CorruptFile /\ p_pc = "for" /\ p_start_index = 0)

(* ========================= claims: combiner =========================== *)

\* the folders main has discovered / has gone through
Discovered == Range(chunk_dirs)
Visited == {n \in Discovered : c_files[n].seen}
\* the folder a merged line was read from, and its place in that folder's file
LineFrom(line) == line[1]
LinePos(line) == line[3]
\* the merged lines that come from folder n, in merged order
RECURSIVE LinesOf(_, _)
LinesOf(q, n) ==
    IF q = << >> THEN << >>
    ELSE IF LineFrom(Head(q)) = n THEN << Head(q) >> \o LinesOf(Tail(q), n)
    ELSE LinesOf(Tail(q), n)
\* the folders report["chunks"] marks as used
UsedChunks == {report.chunks[j].name :
                 j \in {k \in 1 .. Len(report.chunks) : report.chunks[k].used}}
RECURSIVE SumOver(_, _)
SumOver(q, field) ==
    IF q = << >> THEN 0
    ELSE (IF Head(q).used THEN Head(q)[field] ELSE 0) + SumOver(Tail(q), field)
\* q is ordered by the number of the folder each line comes from, keeps the
\* order of each folder's file, and holds every line of the used folders
MergedInOrder(q, file) ==
    /\ \A a, b \in 1 .. Len(q) :
         DecimalValue(LineFrom(q[a])) < DecimalValue(LineFrom(q[b])) => a < b
    /\ \A n \in ChildNames :
         LinesOf(q, n) =
            IF n \in UsedChunks
            THEN Lines(n, file, IF file = "p" THEN c_files[n].n_pred
                                ELSE c_files[n].n_debug)
            ELSE << >>

\* C12: chunks are merged in ascending order of the number in the folder name
\* (2 before 10), each chunk's lines in the order of its file, and the combined
\* files hold as many lines as the used chunks' files together.
C12_NumericMergeOrder ==
    /\ \A a, b \in 1 .. Len(chunk_dirs) :
         a < b => DecimalValue(chunk_dirs[a]) <= DecimalValue(chunk_dirs[b])
    /\ MergedInOrder(merged_prediction_lines, "p")
    /\ MergedInOrder(merged_debug_lines, "d")
    /\ c_out.written
         => /\ c_out.predictions = merged_prediction_lines
            /\ c_out.debug = merged_debug_lines
            /\ Len(c_out.predictions) = SumOver(c_out.report.chunks, "prediction_lines")
            /\ Len(c_out.debug) = SumOver(c_out.report.chunks, "debug_lines")

\* folders 2 and 10 were merged, 2 first, one of them with two lines
C12_Witness ==
    /\ c_out.written
    /\ {<< 2 >>, << 1, 0 >>} \subseteq UsedChunks
    /\ c_files[<< 2 >>].n_pred = 2
    /\ c_files[<< 1, 0 >>].n_pred = 1
    /\ c_out.predictions =
         << << << 2 >>, "p", 1 >>, << << 2 >>, "p", 2 >>, << << 1, 0 >>, "p", 1 >> >>

\* a folder strict mode must not accept (C13): a required file is missing, or
\* the summary says integrity_ok = false
Offending(c) == ~c.has_predictions \/ ~c.has_debug \/ (c.has_summary /\ ~c.integrity_ok)

\* C13: in strict mode a chunk with a missing predictions.txt or
\* predictions_debug.jsonl, or with integrity_ok = false in its summary, makes
\* main return non-zero with none of the three output files written, wherever
\* the chunk stands in the merge order; a strict run that writes its outputs
\* has seen every discovered chunk and none of them was such a chunk.
C13_StrictAborts ==
    strict =>
        /\ (\E n \in Visited : Offending(c_files[n]))
             => /\ c_pc = "done"
                /\ c_rc = 2
                /\ ~c_out.written
        /\ c_out.written
             => /\ Visited = Discovered
                /\ \A n \in Discovered : ~Offending(c_files[n])

\* a strict run stopped at its second chunk after the first one was accepted
C13_Witness ==
    /\ strict
    /\ c_pc = "done"
    /\ c_rc = 2
    /\ c_i = 2
    /\ Len(merged_prediction_lines) > 0
    /\ Offending(c_files[chunk_dirs[2]])
    /\ ~c_out.written

\* the warnings of report["warnings"] about folder n
WarningsOf(n) == {j \in 1 .. Len(report.warnings) : report.warnings[j].name = n}

\* C14: in lenient mode a chunk without predictions.txt or without
\* predictions_debug.jsonl gives no line to either combined file, is reported
\* with used = false, and has exactly one warning.
C14_LenientSkipsWhole ==
    ~strict =>
        \A n \in Visited :
            (~c_files[n].has_predictions \/ ~c_files[n].has_debug)
                => /\ LinesOf(merged_prediction_lines, n) = << >>
                   /\ LinesOf(merged_debug_lines, n) = << >>
                   /\ \E j \in 1 .. Len(report.chunks) :
                        /\ report.chunks[j].name = n
                        /\ ~report.chunks[j].used
                        /\ report.chunks[j].warning = "missing"
                   /\ Cardinality(WarningsOf(n)) = 1
                   /\ c_out.written
                        => /\ LinesOf(c_out.predictions, n) = << >>
                           /\ LinesOf(c_out.debug, n) = << >>

\* a lenient run wrote its outputs, with debug lines of another chunk, after
\* skipping a chunk that has a debug file (with a line) and no predictions.txt
C14_Witness ==
    /\ ~strict
    /\ c_out.written
    /\ Len(c_out.debug) > 0
    /\ \E n \in Visited :
         /\ ~c_files[n].has_predictions
         /\ c_files[n].has_debug
         /\ c_files[n].n_debug > 0

\* main has flagged folder n: a warning in the report, or the abort of a strict run
Flagged(n) ==
    \/ WarningsOf(n) # {}
    \/ strict /\ c_pc = "done" /\ c_rc = 2 /\ chunk_dirs[c_i] = n

\* C15: every visited chunk with both required files is flagged when its
\* summary's successful_predictions is not the number of lines of
\* predictions.txt, when its integrity_ok is not true, and when it has no summary.
C15_EveryDiscrepancyFlagged ==
    \A n \in Visited :
        LET c == c_files[n]
        IN  (c.has_predictions /\ c.has_debug)
               => /\ ~c.has_summary => Flagged(n)
                  /\ (c.has_summary /\ ~c.integrity_ok) => Flagged(n)
                  /\ (c.has_summary /\ c.successful_predictions # c.n_pred)
                        => Flagged(n)

\* the combined lines main writes when _find_chunk_dirs returns dirs
RECURSIVE MergedFor(_, _)
MergedFor(dirs, file) ==
    IF dirs = << >> THEN << >>
    ELSE LET n == Head(dirs)
             c == c_files[n]
         IN  (IF ChunkStep(n, c, strict).chunk_report.used
              THEN Lines(n, file, IF file = "p" THEN c.n_pred ELSE c.n_debug)
              ELSE << >>) \o MergedFor(Tail(dirs), file)

\* C16: the combined files a run wrote are the ones a run over the same
\* folders writes for every other order in which iterdir can yield them.
C16_SameForEveryListing ==
    c_out.written
        => \A listing \in Listings(c_children) :
              /\ MergedFor(FindChunkDirs(listing), "p") = c_out.predictions
              /\ MergedFor(FindChunkDirs(listing), "d") = c_out.debug

\* C17: main returns 0 exactly when it has written the combined outputs; it
\* returns non-zero, with no output, when no chunk folder is found; a strict
\* run that has flagged anything returns non-zero.
C17_ReturnStatus ==
    /\ c_out.written <=> c_rc = 0
    /\ c_pc = "done" <=> c_rc \in {0, 1, 2}
    /\ (c_pc = "done" /\ ~(\E n \in c_children : Matches(n)))
         => c_rc = 1 /\ ~c_out.written
    /\ (c_pc = "done" /\ strict /\ report.warnings # << >>)
         => c_rc = 2 /\ ~c_out.written
    /\ c_rc = 1 => chunk_dirs = << >>
    /\ c_rc = 2 => strict /\ report.warnings # << >>

\* the only folder of chunks_root does not match the pattern: main returned 1
C17_Witness ==
    /\ c_pc = "done"
    /\ c_children = {<< >>}
    /\ c_rc = 1
    /\ ~c_out.written

(* ================== claims: stages of one question ==================== *)

\* q is a (possibly whole) beginning of r
IsPrefix(q, r) == Len(q) <= Len(r) /\ q = SubSeq(r, 1, Len(q))
\* the stage an error of _run_one_question belongs to ("row": the row itself)
ErrorStage(error) ==
    IF error \in {"Agent A raised", "Agent A returned empty db_name"} THEN "A"
    ELSE IF error = "Agent B raised" THEN "B"
    ELSE IF error \in {"Agent C raised", "Agent C error",
                       "Agent C returned empty SQL"} THEN "C"
    ELSE "row"

\* C18: the stages of an attempt run in the order A, B, C; a failed stage is
\* the last one invoked and the attempt fails with that stage's tag, in
\* _run_one_question and in _run_agents, a failure of agent A included.
C18_HaltAtFailedStage ==
    /\ w_last.made
         => LET r == w_last.result
            IN  /\ \/ IsPrefix(r.called, << "A", "B", "C" >>)
                   \/ use_gold_db /\ IsPrefix(r.called, << "B", "C" >>)
                /\ (~r.ok /\ ErrorStage(r.error) # "row")
                     => /\ r.called # << >>
                        /\ r.called[Len(r.called)] = ErrorStage(r.error)
                        /\ ~success
                /\ r.ok => Len(r.called) = (IF use_gold_db THEN 2 ELSE 3)
    /\ p_last.made
         => LET r == p_last.result
            IN  /\ IsPrefix(r.called, << "a", "b", "c" >>)
                /\ r.stage \in {"b", "c"}
                     => /\ r.called[Len(r.called)] = r.stage
                        /\ p_last.idx \notin Range(results)
                /\ r.a_error
                     => /\ r.called = << "a" >>
                        /\ r.stage = "a"
                        /\ p_last.idx \notin Range(results)

\* C19: an attempt whose synthesized SQL is empty, or empty once its whitespace
\* is normalized, is a failed attempt: the question gets no prediction line
\* from it and last_index does not become its index.
C19_NoEmptyQuery ==
    /\ (w_last.made /\ w_last.result.error = "Agent C returned empty SQL")
         => /\ ~w_last.result.ok
            /\ ~success
            /\ w_last.idx \notin Predicted
    /\ (p_last.made /\ p_last.result.stage = "ok"
          /\ ~NormalizedNonEmpty(p_last.result.sql))
         => /\ p_last.idx \notin Range(results)
            /\ tracking.last_index # p_last.idx
            /\ OnDisk.last_index # p_last.idx

(* ==================== claims: chunk writer's status =================== *)

\* C20: main returns 2 exactly when a chunk's summary says
\* stopped_due_to_error, and 0 exactly when the range is empty or every chunk
\* of it is summarised with integrity_ok; the stopping chunk's summary is on
\* disk when main returns.
C20_ReturnStatus ==
    /\ w_rc \in {-1, 0, 2}
    /\ w_rc # -1 <=> w_pc = "done"
    /\ w_pc = "done"
         => /\ w_rc = 2 <=> \E n \in Summarised :
                               w_chunks[n].summary.stopped_due_to_error
            /\ w_rc = 0 <=>
                 \/ start_index >= end_index
                 \/ /\ DOMAIN w_chunks = Summarised
                    /\ \A n \in Summarised : w_chunks[n].summary.integrity_ok
                    /\ \E n \in Summarised :
                         w_chunks[n].summary.range_end_exclusive = end_index
            /\ w_rc = 2 => /\ chunk_no \in Summarised
                           /\ w_chunks[chunk_no].summary.stopped_due_to_error
    /\ (\E n \in Summarised : w_chunks[n].summary.stopped_due_to_error)
         => w_rc = 2

\* a run returned 2 from its second chunk, after a first chunk with integrity_ok
C20_Witness ==
    /\ w_pc = "done"
    /\ w_rc = 2
    /\ Summarised = {1, 2}
    /\ w_chunks[1].summary.integrity_ok
    /\ w_chunks[2].summary.stopped_due_to_error

(* ============== claims: the runner after a given-up question ========== *)

\* C21: in the checkpointed runner, once a question has exhausted all of its
\* attempts (the run logged "Failed index" for it), the run stops: no question
\* of a higher index is attempted in that run.
C21_StopsAfterGivenUp ==
    \A i \in QIndices : \A j \in QIndices :
        (p_log[i].failed > 0 /\ j > i) => p_log[j].starts = 0

\* C22: every question the run has moved past without a prediction (skipped
\* for a missing question text or db_id, or given up after the last attempt)
\* has its index in the failures list of the checkpoint, in memory and on
\* disk, before the next question starts.
C22_EveryFailureRecorded ==
    (p_runs = 1 /\ p_pc \in {"for", "while", "complete", "done"})
      => \A i \in QIndices :
           (i >= p_start_index /\ i < p_idx /\ i \notin Range(results))
             => /\ i \in Range(tracking.failures)
                /\ i \in Range(OnDisk.failures)

\* a row the chunk writer cannot run: no question text, or no db_id while
\* use_gold_db is true (_pick_question, _run_one_question line 507)
InvalidRow(row, gold) == ~row.question \/ (gold /\ ~row.db_id)

\* C23: a question with invalid input is failed after one attempt and never
\* retried: the chunk writer makes at most one attempt on it, and the runner
\* starts no retry loop on a row it skips.
C23_InvalidInputNotRetried ==
    /\ (w_pc = "while" /\ InvalidRow(w_row, use_gold_db))
         => w_log[w_idx].attempts <= 1
    /\ \A i \in p_read : Skipped(Question(i)) => p_log[i].starts = 0

(* ================= claims: the runner's inter-attempt wait ============= *)

\* C24: the runner sleeps only after a failed attempt that another attempt
\* follows. For every question of a run the waits are the "Retry" log lines,
\* there are fewer of them than retry_count, and once the question has its
\* outcome (prediction written, or "Failed index" logged) the number of waits
\* is the number of attempts minus one; while the retry loop is between two
\* attempts every attempt made so far was followed by a wait.
C24_WaitsBetweenAttempts ==
    \A i \in QIndices :
        /\ p_log[i].waits = p_log[i].retries
        /\ p_log[i].waits < retry_count
        /\ p_log[i].waits <= p_log[i].starts
        /\ (p_log[i].done > 0 \/ p_log[i].failed > 0)
             => p_log[i].waits = p_log[i].starts - 1
        /\ (p_idx = i /\ p_pc \in {"complete", "ok_save", "fail_save"})
             => p_log[i].waits = p_log[i].starts - 1
        /\ (p_idx = i /\ p_pc = "while" /\ PRetryGuard(p_attempt, retry_count))
             => p_log[i].waits = p_log[i].starts

\* one question succeeded at its second attempt after one wait, and another
\* was given up after retry_count attempts
C24_Witness ==
    /\ \E i \in QIndices : /\ p_log[i].done = 1
                           /\ p_log[i].starts = 2
                           /\ p_log[i].waits = 1
    /\ \E i \in QIndices : /\ p_log[i].failed = 1
                           /\ p_log[i].starts = 2
                           /\ p_log[i].waits = 1

(* ================ claims: the chunk writer's gold db =================== *)

\* C25: with use_gold_db the chunk writer never invokes source selection
\* (agent A), records agent_a_ms as the literal 0, and hands the row's gold db
\* id to attribute selection (B) and query synthesis (C); without use_gold_db
\* the db handed to B and C is the one agent A returned, and an attempt's
\* outcome is the same whether or not the row has a gold db id.
C25_GoldDbVerbatim ==
    /\ w_last.made
         => LET r == w_last.result
                reachedB == Len(r.called) >= 1 /\ r.called[Len(r.called)] # "A"
            IN  IF use_gold_db
                THEN /\ \A j \in 1 .. Len(r.called) : r.called[j] # "A"
                     /\ reachedB => /\ r.agent_a_ms = "0"
                                    /\ r.predicted_db = "gold_db"
                ELSE /\ r.called # << >> => r.called[1] = "A"
                     /\ reachedB => /\ r.agent_a_ms = "measured"
                                    /\ r.predicted_db = "agent_a"
    /\ \A a \in AOutcomes, b \in BOutcomes, c \in COutcomes, q \in BOOLEAN :
         RunOneQuestion([question |-> q, db_id |-> TRUE], FALSE, a, b, c)
           = RunOneQuestion([question |-> q, db_id |-> FALSE], FALSE, a, b, c)

\* with use_gold_db an attempt went through agents B and C and succeeded
C25_Witness ==
    /\ use_gold_db
    /\ w_last.made
    /\ w_last.result.ok
    /\ w_last.result.called = << "B", "C" >>

(* ===================== claims: the runner's reset ====================== *)

\* C26: when the user does not continue, the tracking dict is reset whatever
\* progress.json held, the _save_tracking of the reset leaves a file that
\* loads as last_index -1, last_attempted -1, status new, failures [], and
\* the run that follows starts its for loop at index 0.
C26_ResetStartsOver ==
    [][ /\ (p_pc = "start" /\ p_pc' = "reset_save")
            => /\ tracking'.last_index = -1
               /\ tracking'.last_attempted = -1
               /\ tracking'.status = "new"
               /\ tracking'.failures = << >>
        /\ (p_pc = "reset_save" /\ p_pc' # "dead")
            => /\ tracking_file'.kind = "json"
               /\ LoadTracking(tracking_file').last_index = -1
               /\ LoadTracking(tracking_file').last_attempted = -1
               /\ LoadTracking(tracking_file').status = "new"
               /\ LoadTracking(tracking_file').failures = << >>
               /\ p_pc' = "for" => (p_idx' = 0 /\ p_start_index' = 0) ]_vars

\* a second run found a checkpoint with a saved prediction and a failure,
\* was reset, and is at the head of its loop at index 0
C26_Witness ==
    /\ p_runs = 2
    /\ p_loaded.from = "json"
    /\ p_loaded.got.last_index >= 0
    /\ p_loaded.got.failures # << >>
    /\ p_pc = "for"
    /\ p_idx = 0
    /\ tracking_file.kind = "json"
    /\ OnDisk.last_index = -1
    /\ OnDisk.failures = << >>

(* ============ claims: the checkpoint and its question file ============= *)

\* C27: the resume position is only taken from a checkpoint saved for the
\* question file of the run: when a run has loaded progress.json and goes on
\* from it, the loaded checkpoint's question_file is the run's question
\* file, and a checkpoint saved for another question file is loaded as a fresh
\* one (last_index = -1).
C27_CheckpointOfItsSource ==
    (p_loaded.from # "none" /\ p_pc \in Running \cup {"done"})
      => /\ p_start_index > 0 => p_loaded.got.question_file = question_file
         /\ p_loaded.got.question_file # question_file
              => p_loaded.got.last_index = -1

(* ============ claims: the runner's save of every outcome =============== *)

\* the question the for loop has just moved past, and what progress.json
\* holds about it
MovedPast == p_pc \in {"for", "done"} /\ p_idx > p_start_index /\ p_idx >= 1
OutcomeSaved(i) ==
    /\ OnDisk.last_attempted = i
    /\ \/ OnDisk.last_index = i
       \/ i \in Range(OnDisk.failures)
       \/ Skipped(Question(i))

OneLineText(s) ==
    /\ \A j \in 1 .. Len(s) : s[j] # "\n" /\ s[j] # "\t"
    /\ \A j \in 1 .. Len(s) - 1 : ~(s[j] = " " /\ s[j + 1] = " ")
    /\ s # << >> => (s[1] # " " /\ s[Len(s)] # " ")

\* C30: for every string agent C can return, the normalized query text has no
\* newline, no tab, no two consecutive spaces, no leading or trailing space,
\* and normalizing it again leaves it unchanged; the text a successful
\* question adds to predictions.txt is one non-empty line.
C30_NormalizedOneLine ==
    /\ OneLineText(NormalizeSql(c_result))
    /\ NormalizeSql(NormalizeSql(c_result)) = NormalizeSql(c_result)
    /\ n_pc \in {"normalized", "written"}
         => /\ prediction_sql # << >>
            /\ OneLineText(prediction_sql)
            /\ NormalizeSql(prediction_sql) = prediction_sql
    /\ n_pc = "written"
         => /\ Len(pred_f) >= 2
            /\ pred_f[Len(pred_f)] = "\n"
            /\ \A j \in 1 .. Len(pred_f) - 1 : pred_f[j] # "\n"

\* a string with a tab, a newline and a letter on each side was written as
\* "a b" and a line end
C30_Witness ==
    /\ n_pc = "written"
    /\ c_result = << "a", "\t", "\n", "b" >>
    /\ pred_f = << "a", " ", "b", "\n" >>

(* ============= claims: the combiner and the chunk folders ============== *)

\* what main found in a chunk folder is still there when main has returned
ChunkFilesKept ==
    \A name \in ChildNames :
        c_files[name].seen => c_out.chunk_files[name] = c_files[name]

\* C31 (as stated): a combine, strict or lenient, completed or aborted, leaves
\* the files of every chunk folder as it found them; it writes nothing but the
\* three combined files, and those only when it completes.
C31_ChunkFilesUntouched ==
    /\ c_out.written => ChunkFilesKept
    /\ c_out.written <=> (c_pc = "done" /\ c_rc = 0)

\* C31 (amended): the same when the combined predictions file is not given
\* the path of a file of a chunk folder.
C31_ChunkFilesUntouchedElsewhere ==
    /\ (c_out.written /\ c_out.output_path # "chunk") => ChunkFilesKept
    /\ c_out.written <=> (c_pc = "done" /\ c_rc = 0)

\* a combine of two chunk folders with lines has written its files next to
\* them
C31_Witness ==
    /\ c_out.written
    /\ c_out.output_path = "combined"
    /\ Len(chunk_dirs) = 2
    /\ \A j \in 1 .. 2 : c_files[chunk_dirs[j]].seen /\ c_files[chunk_dirs[j]].n_pred > 0
    /\ Len(c_out.predictions) >= 2

(* ================= claims: the lenient combine ========================= *)

\* something is wrong with what chunk folder n holds
HasIssue(n) ==
    LET c == c_files[n]
    IN  \/ ~c.has_predictions
        \/ ~c.has_debug
        \/ ~c.has_summary
        \/ ~c.summary_loads
        \/ ~c.integrity_ok
        \/ c.successful_predictions # c.n_pred

\* C32: in lenient mode, when at least one chunk folder is found, main ends
\* by returning 0 with the two combined files and the report written,
\* whatever the chunk folders hold (files missing, counts that differ,
\* integrity_ok false, summary.json missing, not loadable or without its
\* fields), and every folder with such an issue has a warning in the report.
C32_LenientCompletes ==
    (~strict /\ chunk_dirs # << >> /\ c_pc \notin {"find", "loop"})
      => /\ c_pc = "done"
         /\ c_rc = 0
         /\ c_out.written
         /\ \A n \in Visited : HasIssue(n) => WarningsOf(n) # {}

(* ================ claims: the chunk writer's numbering ================= *)

\* the range of the chunk numbered n of a run over [S, E) with chunk size C
ChunkLo(n) == start_index + (n - 1) * chunk_size
ChunkHi(n) == Min(start_index + n * chunk_size, end_index)

\* C33: within one run the chunk folders are numbered 1, 2, 3, ... without a
\* gap, the chunk numbered n covers [S + (n-1)*C, min(S + n*C, E)), the
\* records and lines of a question are only in the folder of the chunk whose
\* range holds it, and a folder whose summary is written is never written
\* again (no number is used twice).
C33_ChunkNumbering ==
    /\ [](/\ \E k \in 0 .. MaxExamples : DOMAIN w_chunks = 1 .. k
          /\ \A n \in DOMAIN w_chunks :
               /\ \A i \in PredictedIn(n) \cup DebuggedIn(n) :
                    ChunkLo(n) <= i /\ i < ChunkHi(n)
               /\ n \in Summarised
                    => /\ w_chunks[n].summary.chunk_no = n
                       /\ w_chunks[n].summary.range_start = ChunkLo(n)
                       /\ w_chunks[n].summary.range_end_exclusive = ChunkHi(n))
    /\ [][\A n \in Summarised : /\ n \in DOMAIN w_chunks'
                                /\ w_chunks'[n] = w_chunks[n]]_vars

\* a run over [0, 3) with chunk size 2 has written chunk 1 and chunk 2
C33_Witness ==
    /\ Summarised = {1, 2}
    /\ chunk_size = 2
    /\ w_chunks[1].summary.range_start = 0
    /\ w_chunks[2].summary.range_start = 2
    /\ w_chunks[2].summary.range_end_exclusive = 3
    /\ Len(w_chunks[2].predictions) = 1

(* ========== claims: the summary's count and the lines written ========== *)

\* C34: for every chunk the chunk writer finishes, successful_predictions of
\* its summary is the number of lines of its predictions.txt, also when an
\* attempt fails after its prediction line was written and before chunk_ok
\* was counted; the combiner's count test (mismatch) is then false for it.
C34_CountIsLineCount ==
    \A n \in Summarised :
        LET s == w_chunks[n].summary
            lines == Len(w_chunks[n].predictions)
        IN  /\ s.successful_predictions = lines
            /\ ~Mismatch([successful_predictions |-> s.successful_predictions,
                          n_pred |-> lines])

(* ============ claims: the summary's next_start_suggestion ============== *)

\* the questions with a prediction line in the chunks up to chunk n
PredictedUpTo(n) == UNION {PredictedIn(m) : m \in {k \in DOMAIN w_chunks : k <= n}}
\* the first index of [start_index, end_index] without one
FirstUnpredicted(n) ==
    CHOOSE i \in start_index .. end_index :
        /\ \A j \in start_index .. i - 1 : j \in PredictedUpTo(n)
        /\ i \notin PredictedUpTo(n)

C36_CheckpointOrder ==
    /\ [](/\ p_pc \in Running \cup {"done"}
               => tracking.last_index <= tracking.last_attempted
          /\ tracking_file.kind = "json"
               => tracking_file.payload.last_index
                     <= tracking_file.payload.last_attempted)
    /\ [][(p_pc \in Running /\ p_pc' \in Running \cup {"done"})
            => /\ tracking'.last_index >= tracking.last_index
               /\ IsPrefix(tracking.failures, tracking'.failures)]_vars

\* a second run goes on from a checkpoint, and has on disk a prediction for
\* question 0 and a failure for question 1
C36_Witness ==
    /\ p_runs = 2
    /\ p_loaded.from = "json"
    /\ p_pc = "for"
    /\ tracking_file.kind = "json"
    /\ tracking_file.payload.last_index = 0
    /\ tracking_file.payload.last_attempted = 1
    /\ tracking_file.payload.failures = << 1 >>

(* ============ claims: the runner's output across restarts ============== *)

\* C37: when the runner is killed and then started again to continue from
\* the checkpoint on disk (a run that starts at an index above 0 is such a
\* run), no question has more than one line in the predictions file or more
\* than one record in the complete-result file.
C37_NoDuplicateAfterResume ==
    (p_runs >= 2 /\ p_start_index >= 1 /\ p_pc \in Running \cup {"done"})
      => \A i \in QIndices : /\ Count(results, i) <= 1
                             /\ Count(complete_result, i) <= 1

\* a run after the first one was reset although progress.json held progress,
\* and is in or past its loop (a continued run would start above index 0)
AfterReset ==
    /\ p_runs >= 2
    /\ p_loaded.from = "json"
    /\ p_loaded.got.last_index >= 0
    /\ p_start_index = 0
    /\ p_pc \in (Running \ {"reset_save"}) \cup {"done"}

\* C38: after a reset, the predictions file and the complete-result file hold
\* only entries of the run that follows: every entry is of a question this
\* run has attempted, once.
C38_ResetClearsOutputs ==
    AfterReset
      => /\ \A j \in 1 .. Len(results) :
              /\ p_log[results[j]].starts > 0
              /\ Count(results, results[j]) = 1
         /\ \A j \in 1 .. Len(complete_result) :
              /\ p_log[complete_result[j]].starts > 0
              /\ Count(complete_result, complete_result[j]) = 1

(* ============ chunk writer: runs into the same output root ============ *)

MaxWriterRuns == 2

\* main is run again (lines 604-611): output_root is the same folder for the
\* same dataset kind, mkdir(exist_ok=True) keeps what is in it and nothing in
\* main removes a folder, so the test_chuck_<n> folders of the run that ended
\* stay in output_root.  From here w_chunks holds the folders the new run
\* writes (lines 683-707 open their files with "w"); w_left holds the chunk
\* numbers of the folders that earlier runs left.
W_Rerun ==
    /\ w_pc = "done"
    /\ w_run < MaxWriterRuns
    /\ w_run' = w_run + 1
    /\ w_left' = w_left \cup DOMAIN w_chunks
    /\ w_pc' = "main"
    /\ total_examples' \in 0 .. MaxExamples
    /\ from_case' \in -1 .. MaxExamples
    /\ to_case' \in -1 .. MaxExamples
    /\ chunk_size' \in 1 .. MaxChunkSize
    /\ max_retries' \in 0 .. MaxRetries
    /\ use_gold_db' \in BOOLEAN
    /\ start_index' = 0
    /\ end_index' = 0
    /\ chunk_no' = 0
    /\ current' = 0
    /\ chunk_start' = 0
    /\ chunk_end' = 0
    /\ chunk_ok' = 0
    /\ stop_all' = FALSE
    /\ w_idx' = 0
    /\ w_row' = NoRow
    /\ w_attempt' = 0
    /\ success' = FALSE
    /\ w_chunks' = << >>
    /\ w_log' = [i \in Indices |-> [attempts |-> 0, failed |-> 0]]
    /\ w_rc' = -1
    /\ w_last' = NoAttempt
    /\ UNCHANGED p_vars
    /\ UNCHANGED c_vars
    /\ UNCHANGED n_vars

\* runs of the chunk writer, one after the other, into the same output root
WRerun_Next ==
    \/ W_Main
    \/ W_ChunkBegin
    \/ W_RunComplete
    \/ W_ForNext
    \/ W_ForEnd
    \/ W_Attempt
    \/ W_AfterWhile
    \/ W_Summary
    \/ W_Rerun

RerunSpec == WriterInit /\ [][WRerun_Next]_vars

\* f"test_chuck_{chunk_no}" (line 683): the digits after test_chuck_
FolderName(n) == IF n < 10 THEN << n >> ELSE << n \div 10, n % 10 >>

\* the test_chuck_<n> folders in output_root: those of this run and those left
RootFolders == {FolderName(n) : n \in DOMAIN w_chunks \cup w_left}

\* the chunk numbers _find_chunk_dirs(output_root) returns
DiscoveredChunkNos ==
    LET found == FindChunkDirs(CHOOSE f \in Listings(RootFolders) : TRUE)
    IN  {ChunkNo(found[i]) : i \in 1 .. Len(found)}

\* C39: when a run of the chunk writer has returned 0, every test_chuck_<n>
\* folder that the combiner discovers in the output root was written by that
\* run, whatever runs went before it into the same output root.
C39_OnlyFoldersOfLastRun ==
    (w_pc = "done" /\ w_rc = 0 /\ DOMAIN w_chunks # {}) =>
        DiscoveredChunkNos \subseteq DOMAIN w_chunks

(* ========= chunk writer, then combiner on its output root ============== *)

\* what the folder test_chuck_<n> written by the chunk writer holds, as the
\* combiner reads it: the two line files exist from line 703 on, summary.json
\* from line 786 on
FolderContent(n) ==
    LET ch == w_chunks[n]
    IN  [seen |-> TRUE, has_predictions |-> TRUE, has_debug |-> TRUE,
         n_pred |-> Len(ch.predictions), n_debug |-> Len(ch.debug),
         has_summary |-> ch.summary.written, summary_loads |-> TRUE,
         successful_predictions |->
             IF ch.summary.written THEN ch.summary.successful_predictions
             ELSE -1,
         integrity_ok |->
             IF ch.summary.written THEN ch.summary.integrity_ok ELSE FALSE]

\* combine main, lines 80-104, started with --chunks-root on the output root
\* of the chunk writer's run that has ended
C_StartOnRoot ==
    /\ w_pc = "done"
    /\ c_pc = "off"
    /\ c_pc' = "find"
    /\ strict' \in BOOLEAN
    /\ c_children' = RootFolders
    /\ c_files' = [n \in RootFolders |-> NoContent]
    /\ UNCHANGED << chunk_dirs, c_i, merged_prediction_lines,
                    merged_debug_lines, report, c_out, c_rc >>
    /\ UNCHANGED w_vars
    /\ UNCHANGED p_vars
    /\ UNCHANGED n_vars

\* combine main, lines 129-211: one turn of the for loop on a folder that the
\* chunk writer wrote; the lines read are the writer's lines
C_ChunkOfRoot ==
    /\ c_pc = "loop"
    /\ c_i <= Len(chunk_dirs)
    /\ LET name == chunk_dirs[c_i]
           c == FolderContent(ChunkNo(name))
           r == ChunkStep(name, c, strict)
       IN  /\ c_files' = [c_files EXCEPT ![name] = c]
           /\ report' =
                [chunks |-> IF r.appended
                            THEN Append(report.chunks, r.chunk_report)
                            ELSE report.chunks,
                 warnings |-> report.warnings \o
                     [j \in 1 .. Len(r.warnings) |->
                         [chunk_no |-> ChunkNo(name), name |-> name,
                          kind |-> r.warnings[j]]]]
           /\ IF r.chunk_report.used
              THEN /\ merged_prediction_lines' =
                        merged_prediction_lines \o
                            w_chunks[ChunkNo(name)].predictions
                   /\ merged_debug_lines' =
                        merged_debug_lines \o w_chunks[ChunkNo(name)].debug
              ELSE UNCHANGED << merged_prediction_lines, merged_debug_lines >>
           /\ IF r.raised
              THEN /\ c_pc' = "raised"
                   /\ UNCHANGED << c_rc, c_i >>
              ELSE IF r.abort
              THEN /\ c_rc' = 2
                   /\ c_pc' = "done"
                   /\ UNCHANGED c_i
              ELSE /\ c_i' = c_i + 1
                   /\ UNCHANGED << c_rc, c_pc >>
    /\ UNCHANGED << c_children, strict, chunk_dirs, c_out >>
    /\ UNCHANGED w_vars
    /\ UNCHANGED p_vars
    /\ UNCHANGED n_vars

\* one run of the chunk writer into an empty output root, in which no write to
\* a chunk file fails, then one run of the combiner on that output root
Pipeline_Next ==
    \/ W_Main
    \/ W_ChunkBegin
    \/ W_RunComplete
    \/ W_ForNext
    \/ W_ForEnd
    \/ W_Attempt
    \/ W_AfterWhile
    \/ W_Summary
    \/ C_StartOnRoot
    \/ C_Find
    \/ C_ChunkOfRoot
    \/ C_Write

PipelineSpec == WriterInit /\ [][Pipeline_Next]_vars

\* the lines of questions start_index .. end_index - 1, in index order
RangeLines == [j \in 1 .. (end_index - start_index) |-> start_index + j - 1]

\* what C40 says of a strict combine that has ended
CombinedIsRange ==
    /\ c_rc = 0
    /\ c_out.written
    /\ c_out.report.warnings = << >>
    /\ c_out.predictions = RangeLines

====
